---- MODULE Spec2Model ----
(***************************************************************************)
(* A model of the workflow core of argocd-cli: parameter validation         *)
(* (validators.py), the workflow client (workflow_client.py), the error     *)
(* classifier (exceptions.py) and the command loops that drive them         *)
(* (cli.py, formatters.py).                                                 *)
(*                                                                         *)
(* Every component is parameterised by its call alone (no state is shared   *)
(* between calls), so each one has its own specification over its own       *)
(* group of variables; the other groups stay at their initial value.        *)
(*                                                                         *)
(* Python strings whose content matters are sequences of one-character      *)
(* strings; a Python value that may be None is a record [t, s] whose tag    *)
(* t says which.                                                            *)
(***************************************************************************)
EXTENDS Integers, Sequences, FiniteSets, TLC

VARIABLES
    \* Validator.validate_parameters
    required, provided, vresult,
    \* the remote store of workflows (instances)
    wfStore, wfLabelled,
    \* workflows delete / WorkflowClient.delete_workflows_by_labels
    delOp, delArgs, delPc, workflows_to_delete, delIdx,
    deleted_count, failed_count, delRequests, delResult,
    \* WorkflowClient.get_workflow_logs
    logNodes, logStep, logPc, target_nodes, logIdx, logs, logReads, logResult,
    \* WorkflowClient.get_workflow_status
    fetchPc, fetchResp, fetchWf, fetchResult,
    \* workflows status --watch
    pollRemote, pollGone, pollPc, status, fetchCount, pollExc,
    lastFetchFailed, interruptedAt, fetchesAtInterrupt,
    \* submit
    submitTemplate, submitParams, submitPc, submitCalls, createRequests,
    lastBody, instances, submitResp, submitRespName, submitResult, cliSubmit,
    \* templates apply
    tplStore, applyDoc, applyPc, applyCalls, applyEnded, applyResult, prevApply,
    \* templates generate
    genKind, genNamespace, genPc, genResult, genValid,
    \* logs --follow
    podLines, podClosed, streamCall, streamPc, streamTargets, streamIdx,
    streamPos, streamBuf, yielded, subscriptions, cancelledCalls,
    \* handle_kubernetes_api_exception
    classE, classResourceType, classPc, classResult,
    \* the time a remote call takes
    toPc, toRequest, toElapsed, toEnded, toResult,
    \* the remote state and the requests sent to it
    frTemplate, frInstances, frOp, frQueue, frLast,
    \* submit app / submit appset
    cmdName, cmdOptions, cmdPc, cmdParameters, cmdBody,
    \* templates create
    tcType, tcNamespace, nsExists, tcPc, templates_to_create, created_templates, tcRequests, tcResult

valVars == <<required, provided, vresult>>
delVars == <<wfStore, wfLabelled, delOp, delArgs, delPc, workflows_to_delete,
             delIdx, deleted_count, failed_count, delRequests, delResult>>

logVars == <<logNodes, logStep, logPc, target_nodes, logIdx, logs, logReads, logResult>>

fetchVars == <<fetchPc, fetchResp, fetchWf, fetchResult>>

pollVars == <<pollRemote, pollGone, pollPc, status, fetchCount, pollExc,
              lastFetchFailed, interruptedAt, fetchesAtInterrupt>>

submitVars == <<submitTemplate, submitParams, submitPc, submitCalls,
                createRequests, lastBody, instances, submitResp,
                submitRespName, submitResult, cliSubmit>>

applyVars == <<tplStore, applyDoc, applyPc, applyCalls, applyEnded, applyResult, prevApply>>

genVars == <<genKind, genNamespace, genPc, genResult, genValid>>

streamVars == <<podLines, podClosed, streamCall, streamPc, streamTargets, streamIdx,
                streamPos, streamBuf, yielded, subscriptions, cancelledCalls>>

classVars == <<classE, classResourceType, classPc, classResult>>

timeoutVars == <<toPc, toRequest, toElapsed, toEnded, toResult>>

frameVars == <<frTemplate, frInstances, frOp, frQueue, frLast>>

cmdVars == <<cmdName, cmdOptions, cmdPc, cmdParameters, cmdBody>>

tcVars == <<tcType, tcNamespace, nsExists, tcPc, templates_to_create, created_templates, tcRequests, tcResult>>

vars ==
    <<valVars, delVars, logVars, fetchVars, pollVars, submitVars, applyVars, genVars, streamVars, classVars, timeoutVars, frameVars, cmdVars, tcVars>>

\* what the actions of one component leave alone
notVal ==
    <<delVars, logVars, fetchVars, pollVars, submitVars, applyVars, genVars, streamVars, classVars, timeoutVars, frameVars, cmdVars, tcVars>>
notDel ==
    <<valVars, logVars, fetchVars, pollVars, submitVars, applyVars, genVars, streamVars, classVars, timeoutVars, frameVars, cmdVars, tcVars>>
notLog ==
    <<valVars, delVars, fetchVars, pollVars, submitVars, applyVars, genVars, streamVars, classVars, timeoutVars, frameVars, cmdVars, tcVars>>
notFetch ==
    <<valVars, delVars, logVars, pollVars, submitVars, applyVars, genVars, streamVars, classVars, timeoutVars, frameVars, cmdVars, tcVars>>
notPoll ==
    <<valVars, delVars, logVars, fetchVars, submitVars, applyVars, genVars, streamVars, classVars, timeoutVars, frameVars, cmdVars, tcVars>>
notSubmit ==
    <<valVars, delVars, logVars, fetchVars, pollVars, applyVars, genVars, streamVars, classVars, timeoutVars, frameVars, cmdVars, tcVars>>
notApply ==
    <<valVars, delVars, logVars, fetchVars, pollVars, submitVars, genVars, streamVars, classVars, timeoutVars, frameVars, cmdVars, tcVars>>
notGen ==
    <<valVars, delVars, logVars, fetchVars, pollVars, submitVars, applyVars, streamVars, classVars, timeoutVars, frameVars, cmdVars, tcVars>>
notStream ==
    <<valVars, delVars, logVars, fetchVars, pollVars, submitVars, applyVars, genVars, classVars, timeoutVars, frameVars, cmdVars, tcVars>>
notClass ==
    <<valVars, delVars, logVars, fetchVars, pollVars, submitVars, applyVars, genVars, streamVars, timeoutVars, frameVars, cmdVars, tcVars>>
notTimeout ==
    <<valVars, delVars, logVars, fetchVars, pollVars, submitVars, applyVars, genVars, streamVars, classVars, frameVars, cmdVars, tcVars>>
notFrame ==
    <<valVars, delVars, logVars, fetchVars, pollVars, submitVars, applyVars, genVars, streamVars, classVars, timeoutVars, cmdVars, tcVars>>
notCmd ==
    <<valVars, delVars, logVars, fetchVars, pollVars, submitVars, applyVars, genVars, streamVars, classVars, timeoutVars, frameVars, tcVars>>
notTc ==
    <<valVars, delVars, logVars, fetchVars, pollVars, submitVars, applyVars, genVars, streamVars, classVars, timeoutVars, frameVars, cmdVars>>

----------------------------------------------------------------------------
(* Bounds of the model *)

\* longest `required` list
MaxRequired == 2
\* longest parameter value, in characters
MaxValLen == 2
\* number of workflows the remote store may hold
MaxWorkflows == 3
\* number of nodes in a workflow's status
MaxNodes == 2
\* number of status reads one watch may issue
MaxFetches == 3
\* number of times the submit command is run
MaxSubmits == 2
\* number of times apply_template is called, and of contents a template may have
MaxApplies == 2
MaxContents == 2
\* length of a namespace
MaxNsLen == 3
\* streaming: units of a workflow, lines of a pod's log, runs of the command
MaxUnits == 2
MaxLines == 2
MaxStreams == 2
\* seconds a call is followed while it waits for the remote
MaxWait == 31
\* number of instances the remote may hold
MaxInstances == 2

----------------------------------------------------------------------------
(* Python values *)

Range(s) == {s[i] : i \in DOMAIN s}

SeqsUpTo(S, n) == UNION {[1..k -> S] : k \in 0..n}

Whitespace == {" "}
Chars == {" ", "x"}

PyStr(s) == [t |-> "str", s |-> s]
PyNone == [t |-> "none", s |-> <<>>]

\* `not v` for a str or None
PyNot(v) == v.t = "none" \/ (v.t = "str" /\ Len(v.s) = 0)

RECURSIVE LStrip(_)
LStrip(s) ==
    IF s # <<>> /\ Head(s) \in Whitespace THEN LStrip(Tail(s)) ELSE s

RECURSIVE RStrip(_)
RStrip(s) ==
    IF s # <<>> /\ s[Len(s)] \in Whitespace
    THEN RStrip(SubSeq(s, 1, Len(s) - 1))
    ELSE s

\* str.strip()
Strip(s) == RStrip(LStrip(s))

----------------------------------------------------------------------------
(* The value of each group of variables while its component is not in use *)

NotRun == [ok |-> FALSE, exc |-> "not-run", missing |-> <<>>, empty |-> <<>>]

ValIdle ==
    /\ required = <<>>
    /\ provided = <<>>
    /\ vresult = NotRun

NoCounts == [deletedCount |-> 0]

DelIdle ==
    /\ wfStore = {}
    /\ wfLabelled = {}
    /\ delOp = "none"
    /\ delArgs = [workflow_name |-> 0, label |-> "none", all |-> FALSE,
                  retain_logs |-> FALSE, yes |-> FALSE]
    /\ delPc = "idle"
    /\ workflows_to_delete = <<>>
    /\ delIdx = 1
    /\ deleted_count = 0
    /\ failed_count = 0
    /\ delRequests = <<>>
    /\ delResult = NoCounts

NoResult == [raised |-> FALSE, cls |-> "not-run", msg |-> "", val |-> <<>>]

LogIdle ==
    /\ logNodes = <<>>
    /\ logStep = <<"none", 0>>
    /\ logPc = "idle"
    /\ target_nodes = <<>>
    /\ logIdx = 1
    /\ logs = <<>>
    /\ logReads = <<>>
    /\ logResult = NoResult

FetchIdle ==
    /\ fetchPc = "idle"
    /\ fetchResp = [cls |-> "ok", hasStatus |-> FALSE, status |-> 0]
    /\ fetchWf = <<>>
    /\ fetchResult = NoResult

PollIdle ==
    /\ pollRemote = <<>>
    /\ pollGone = FALSE
    /\ pollPc = "idle"
    /\ status = [has |-> FALSE, val |-> <<>>]
    /\ fetchCount = 0
    /\ pollExc = "none"
    /\ lastFetchFailed = FALSE
    /\ interruptedAt = "none"
    /\ fetchesAtInterrupt = 0

SubmitIdle ==
    /\ submitTemplate = ""
    /\ submitParams = <<>>
    /\ submitPc = "idle"
    /\ submitCalls = 0
    /\ createRequests = 0
    /\ lastBody = <<>>
    /\ instances = {}
    /\ submitResp = [cls |-> "ok", hasStatus |-> FALSE, status |-> 0]
    /\ submitRespName = [has |-> FALSE, v |-> <<>>]
    /\ submitResult = NoResult
    /\ cliSubmit = "idle"

ApplyIdle ==
    /\ tplStore = {}
    /\ applyDoc = <<>>
    /\ applyPc = "idle"
    /\ applyCalls = 0
    /\ applyEnded = "none"
    /\ applyResult = NoResult
    /\ prevApply = [doc |-> <<>>, ok |-> FALSE, store |-> {}]

GenIdle ==
    /\ genKind = ""
    /\ genNamespace = <<>>
    /\ genPc = "idle"
    /\ genResult = NoResult
    /\ genValid = NoResult

StreamIdle ==
    /\ podLines = <<>>
    /\ podClosed = <<>>
    /\ streamCall = 0
    /\ streamPc = "idle"
    /\ streamTargets = <<>>
    /\ streamIdx = 1
    /\ streamPos = 1
    /\ streamBuf = 0
    /\ yielded = <<>>
    /\ subscriptions = <<>>
    /\ cancelledCalls = {}

ClassIdle ==
    /\ classE = [cls |-> "ok", hasStatus |-> FALSE, status |-> 0]
    /\ classResourceType = ""
    /\ classPc = "idle"
    /\ classResult = NoResult

NoRequest == [op |-> "none", timeout |-> [has |-> FALSE, v |-> 0]]

TimeoutIdle ==
    /\ toPc = "idle"
    /\ toRequest = NoRequest
    /\ toElapsed = 0
    /\ toEnded = "none"
    /\ toResult = NoResult

NoLast == [actor |-> "none", op |-> "none", verb |-> "none"]

FrameIdle ==
    /\ frTemplate = 0
    /\ frInstances = <<>>
    /\ frOp = "none"
    /\ frQueue = <<>>
    /\ frLast = NoLast

NoOptions ==
    [values_file |-> "", helm_parameters |-> "", sync_policy |-> "manual",
     destination_namespace |-> "", generator_type |-> "list"]

CmdIdle ==
    /\ cmdName = "none"
    /\ cmdOptions = NoOptions
    /\ cmdPc = "idle"
    /\ cmdParameters = <<>>
    /\ cmdBody = [generateName |-> "", workflowTemplateRef |-> "", parameters |-> <<>>]

TcIdle ==
    /\ tcType = "none"
    /\ tcNamespace = <<>>
    /\ nsExists = FALSE
    /\ tcPc = "idle"
    /\ templates_to_create = <<>>
    /\ created_templates = <<>>
    /\ tcRequests = <<>>
    /\ tcResult = NoResult

----------------------------------------------------------------------------
(* validators.py: Validator.validate_parameters *)

ParamNames == {"a", "b", "c"}
ParamValues == {PyStr(s) : s \in SeqsUpTo(Chars, MaxValLen)} \cup {PyNone}

\* the test of line 125: the value is falsy, or a str that is blank once stripped
EmptyValue(v) == PyNot(v) \/ (v.t = "str" /\ PyNot(PyStr(Strip(v.s))))

\* the loop of lines 122-126 over the rest `req` of the required list
RECURSIVE CollectFirstOnly(_, _, _, _)
CollectFirstOnly(req, prov, missing_params, empty_params) ==
    IF req = <<>> \/ missing_params # <<>> \/ empty_params # <<>>
    THEN [missing |-> missing_params, empty |-> empty_params]
    ELSE LET param == Head(req) IN
         IF param \notin DOMAIN prov
         THEN CollectFirstOnly(Tail(req), prov, Append(missing_params, param), empty_params)
         ELSE IF EmptyValue(prov[param])
         THEN CollectFirstOnly(Tail(req), prov, missing_params, Append(empty_params, param))
         ELSE CollectFirstOnly(Tail(req), prov, missing_params, empty_params)

RECURSIVE CollectViolations(_, _, _, _)
CollectViolations(req, prov, missing_params, empty_params) ==
    IF req = <<>>
    THEN [missing |-> missing_params, empty |-> empty_params]
    ELSE LET param == Head(req) IN
         IF param \notin DOMAIN prov
         THEN CollectViolations(Tail(req), prov, Append(missing_params, param), empty_params)
         ELSE IF EmptyValue(prov[param])
         THEN CollectViolations(Tail(req), prov, missing_params, Append(empty_params, param))
         ELSE CollectViolations(Tail(req), prov, missing_params, empty_params)

\* the whole call: one ValidationError naming both lists, or True
validate_parameters(req, prov) ==
    LET v == CollectViolations(req, prov, <<>>, <<>>) IN
    IF v.missing # <<>> \/ v.empty # <<>>
    THEN [ok |-> FALSE, exc |-> "ValidationError",
          missing |-> v.missing, empty |-> v.empty]
    ELSE [ok |-> TRUE, exc |-> "none", missing |-> <<>>, empty |-> <<>>]

InitValidate ==
    /\ TcIdle
    /\ CmdIdle
    /\ FrameIdle
    /\ TimeoutIdle
    /\ ClassIdle
    /\ DelIdle /\ LogIdle /\ FetchIdle /\ PollIdle /\ SubmitIdle /\ ApplyIdle /\ GenIdle
    /\ StreamIdle
    /\ required \in SeqsUpTo(ParamNames, MaxRequired)
    /\ provided \in UNION {[S -> ParamValues] : S \in SUBSET ParamNames}
    /\ vresult = NotRun

Validate ==
    /\ vresult = NotRun
    /\ vresult' = validate_parameters(required, provided)
    /\ UNCHANGED <<required, provided>>
    /\ UNCHANGED notVal

NextValidate == Validate

SpecValidate == InitValidate /\ [][NextValidate]_vars

----------------------------------------------------------------------------
(* C1 *)

\* a value is blank when it is None or holds nothing but whitespace
IsBlank(v) == v.t = "none" \/ \A i \in 1..Len(v.s) : v.s[i] = " "

AbsentRequired == {r \in Range(required) : r \notin DOMAIN provided}
BlankRequired == {r \in Range(required) : r \in DOMAIN provided /\ IsBlank(provided[r])}

\* C1: validate succeeds iff every required name is present with a non-blank
\* value; otherwise it fails once, with one ValidationError that names exactly
\* the absent required names as missing and exactly the present-but-blank
\* required names as empty (so never a name that is not required).
C1_ValidateCollectsAll ==
    vresult # NotRun =>
        /\ vresult.ok <=> (AbsentRequired = {} /\ BlankRequired = {})
        /\ vresult.ok => vresult.exc = "none"
        /\ ~vresult.ok =>
            /\ vresult.exc = "ValidationError"
            /\ Range(vresult.missing) = AbsentRequired
            /\ Range(vresult.empty) = BlankRequired

\* the case of the spec's example: one name empty and another missing, both
\* named by the same failure
C1_Witness ==
    /\ vresult # NotRun
    /\ ~vresult.ok
    /\ vresult.missing # <<>>
    /\ vresult.empty # <<>>
    /\ \E n \in DOMAIN provided : n \notin Range(required)

----------------------------------------------------------------------------
(* What a call to the remote control plane can raise *)

\* kubernetes.client.rest.ApiException; its status is None unless the
\* transport supplied one (status is then the number in `status`)
ApiException(st) == [cls |-> "ApiException", hasStatus |-> TRUE, status |-> st]
ApiExceptionNoStatus == [cls |-> "ApiException", hasStatus |-> FALSE, status |-> 0]
\* a failure below the API layer (connection refused, read timed out)
TransportError == [cls |-> "MaxRetryError", hasStatus |-> FALSE, status |-> 0]
\* the call went through
Ok == [cls |-> "ok", hasStatus |-> FALSE, status |-> 0]
\* Ctrl+C
KeyboardInterrupt == [cls |-> "KeyboardInterrupt", hasStatus |-> FALSE, status |-> 0]

ApiStatuses == {0, 400, 401, 403, 404, 409, 422, 500, 503}
RemoteErrors ==
    {ApiException(st) : st \in ApiStatuses} \cup {ApiExceptionNoStatus, TransportError}

\* `e.status == n`: None equals no number
StatusIs(e, n) == e.hasStatus /\ e.status = n

\* isinstance(e, Exception): KeyboardInterrupt derives from BaseException only
IsException(cls) == cls # "KeyboardInterrupt"

\* the outcome of a call: a returned value or a raised exception
Return(v) == [raised |-> FALSE, cls |-> "none", msg |-> "", val |-> v]
Raise(c, m) == [raised |-> TRUE, cls |-> c, msg |-> m, val |-> <<>>]

----------------------------------------------------------------------------
(* exceptions.py: handle_kubernetes_api_exception *)

\* Returns the error object built for `e`, or raises: `e.status >= 500` is a
\* TypeError when e.status is None.
handle_kubernetes_api_exception(e, resource_type) ==
    IF e.cls = "ApiException"
    THEN IF StatusIs(e, 401) THEN Return([cls |-> "PermissionError", message |-> "authenticate"])
         ELSE IF StatusIs(e, 403) THEN Return([cls |-> "PermissionError", message |-> "operation"])
         ELSE IF StatusIs(e, 404)
              THEN IF resource_type # ""
                   THEN Return([cls |-> "ResourceNotFoundError", message |-> "not found"])
                   ELSE Return([cls |-> "KubernetesAPIError", message |-> "Resource not found"])
         ELSE IF StatusIs(e, 409) THEN Return([cls |-> "KubernetesAPIError", message |-> "Resource conflict"])
         ELSE IF StatusIs(e, 422) THEN Return([cls |-> "ValidationError", message |-> "Invalid resource specification"])
         ELSE IF ~e.hasStatus THEN Raise("TypeError", "'>=' not supported between NoneType and int")
         ELSE IF e.status >= 500 THEN Return([cls |-> "KubernetesAPIError", message |-> "Kubernetes API server error"])
         ELSE Return([cls |-> "KubernetesAPIError", message |-> "API error"])
    ELSE Return([cls |-> "KubernetesAPIError", message |-> "Unexpected error"])

----------------------------------------------------------------------------
(* workflow_client.py: delete_workflow, list_workflows,                     *)
(* delete_workflows_by_labels; cli.py: workflows delete                     *)

WfNames == 1..MaxWorkflows

RECURSIVE SetToSeq(_)
SetToSeq(S) ==
    IF S = {} THEN <<>>
    ELSE LET m == CHOOSE x \in S : \A y \in S : x <= y
         IN <<m>> \o SetToSeq(S \ {m})

\* the items the remote returns for a list request: with a label selector the
\* workflows carrying the labels, without one all of them
list_items(selector) ==
    SetToSeq(IF selector THEN wfStore \cap wfLabelled ELSE wfStore)

\* the two modes the other way round
propagation_policy_swapped(delete_pods) == IF delete_pods THEN "Orphan" ELSE "Background"

\* delete_workflow, line 288
propagation_policy(delete_pods) == IF delete_pods THEN "Background" ELSE "Orphan"

\* delete_workflow: what it returns or raises for the remote's response
delete_workflow(resp) ==
    IF resp = Ok THEN Return(TRUE)
    ELSE IF resp.cls = "ApiException"
    THEN IF StatusIs(resp, 404) THEN Raise("WorkflowNotFoundError", "not found")
         ELSE LET error == handle_kubernetes_api_exception(resp, "Workflow") IN
              IF error.raised THEN error
              ELSE Raise("KubernetesAPIError", "Failed to delete workflow")
    ELSE IF IsException(resp.cls)
    THEN Raise("KubernetesAPIError", "Unexpected error deleting workflow")
    ELSE Raise(resp.cls, "")

DeleteErrors ==
    {ApiException(404), ApiException(403), ApiException(500),
     ApiExceptionNoStatus, TransportError}

\* the cli's `labels` dict is non-empty: some -l option had the form key=value
HasLabels == delArgs.label = "valid"

InitDelete ==
    /\ TcIdle
    /\ CmdIdle
    /\ FrameIdle
    /\ TimeoutIdle
    /\ ClassIdle
    /\ ValIdle /\ LogIdle /\ FetchIdle /\ PollIdle /\ SubmitIdle /\ ApplyIdle /\ GenIdle
    /\ StreamIdle
    /\ wfStore \in SUBSET WfNames
    /\ wfLabelled \in SUBSET wfStore
    /\ delOp \in {"cli", "by_labels"}
    /\ delArgs \in [workflow_name : 0..MaxWorkflows, label : {"none", "valid", "invalid"},
                    all : BOOLEAN, retain_logs : BOOLEAN, yes : BOOLEAN]
    /\ delOp = "by_labels" =>
        /\ delArgs.workflow_name = 0
        /\ delArgs.label # "invalid"
        /\ ~delArgs.all
        /\ ~delArgs.yes
    /\ delPc = "start"
    /\ workflows_to_delete = <<>>
    /\ delIdx = 1
    /\ deleted_count = 0
    /\ failed_count = 0
    /\ delRequests = <<>>
    /\ delResult = NoCounts

delLoopVars == <<workflows_to_delete, delIdx, deleted_count, failed_count, delRequests, delResult>>

\* cli.py 1367-1373: no selector at all
DelInvalidArgs ==
    /\ delOp = "cli" /\ delPc = "start"
    /\ delArgs.workflow_name = 0 /\ delArgs.label = "none" /\ ~delArgs.all
    /\ delPc' = "invalid"
    /\ UNCHANGED <<wfStore, wfLabelled, delOp, delArgs, delLoopVars>>
    /\ UNCHANGED notDel

\* cli.py 1388-1396: an exact name; the status read finds it or raises
DelCheckName ==
    /\ delOp = "cli" /\ delPc = "start"
    /\ delArgs.workflow_name # 0
    /\ \E found \in BOOLEAN :
        /\ found => delArgs.workflow_name \in wfStore
        /\ IF found
           THEN /\ workflows_to_delete' = <<delArgs.workflow_name>>
                /\ delPc' = "confirm"
           ELSE /\ workflows_to_delete' = <<>>
                /\ delPc' = "notfound"
    /\ UNCHANGED <<wfStore, wfLabelled, delOp, delArgs, delIdx, deleted_count,
                   failed_count, delRequests, delResult>>
    /\ UNCHANGED notDel

\* cli.py 1398-1418: labels or --all; the list request answers or raises
DelListCli ==
    /\ delOp = "cli" /\ delPc = "start"
    /\ delArgs.workflow_name = 0
    /\ HasLabels \/ delArgs.all
    /\ \E listed \in BOOLEAN :
        IF ~listed
        THEN /\ delPc' = "error"
             /\ workflows_to_delete' = <<>>
        ELSE IF list_items(HasLabels) = <<>>
        THEN /\ delPc' = "empty"
             /\ workflows_to_delete' = <<>>
        ELSE /\ delPc' = "confirm"
             /\ workflows_to_delete' = list_items(HasLabels)
    /\ UNCHANGED <<wfStore, wfLabelled, delOp, delArgs, delIdx, deleted_count,
                   failed_count, delRequests, delResult>>
    /\ UNCHANGED notDel

\* a command that lists without selector when no -l option is usable
DelInvalidLabelsListAll ==
    /\ delOp = "cli" /\ delPc = "start"
    /\ delArgs.workflow_name = 0
    /\ delArgs.label = "invalid" /\ ~delArgs.all
    /\ delPc' = "confirm"
    /\ workflows_to_delete' = list_items(FALSE)
    /\ UNCHANGED <<wfStore, wfLabelled, delOp, delArgs, delIdx, deleted_count,
                   failed_count, delRequests, delResult>>
    /\ UNCHANGED notDel

\* cli.py 1376-1398: -l given but no option of the form key=value, and no
\* --all: neither branch runs and the list to delete stays empty
DelNothingSelected ==
    /\ delOp = "cli" /\ delPc = "start"
    /\ delArgs.workflow_name = 0
    /\ delArgs.label = "invalid" /\ ~delArgs.all
    /\ delPc' = "confirm"
    /\ UNCHANGED <<wfStore, wfLabelled, delOp, delArgs, delLoopVars>>
    /\ UNCHANGED notDel

\* cli.py 1453-1462
DelConfirm ==
    /\ delOp = "cli" /\ delPc = "confirm"
    /\ \E confirm \in BOOLEAN :
        delPc' = IF delArgs.yes \/ confirm THEN "loop" ELSE "declined"
    /\ UNCHANGED <<wfStore, wfLabelled, delOp, delArgs, delLoopVars>>
    /\ UNCHANGED notDel

\* workflow_client.py 322-326: delete_workflows_by_labels lists, then loops
DelListByLabels ==
    /\ delOp = "by_labels" /\ delPc = "start"
    /\ \E listed \in BOOLEAN :
        IF ~listed
        THEN /\ delPc' = "error"
             /\ workflows_to_delete' = <<>>
        ELSE /\ delPc' = "loop"
             /\ workflows_to_delete' = list_items(HasLabels)
    /\ UNCHANGED <<wfStore, wfLabelled, delOp, delArgs, delIdx, deleted_count,
                   failed_count, delRequests, delResult>>
    /\ UNCHANGED notDel

\* a loop that sends the next request without waiting for the answer to the
\* previous one
DelIssueNoWait ==
    /\ delPc \in {"loop", "inflight"}
    /\ Len(delRequests) < Len(workflows_to_delete)
    /\ delRequests' = Append(delRequests,
           [name |-> workflows_to_delete[Len(delRequests) + 1],
            policy |-> propagation_policy(~delArgs.retain_logs),
            outcome |-> "pending"])
    /\ delPc' = "inflight"
    /\ UNCHANGED <<wfStore, wfLabelled, delOp, delArgs, workflows_to_delete, delIdx,
                   deleted_count, failed_count, delResult>>
    /\ UNCHANGED notDel

\* the delete request of the next workflow goes out
\* (cli.py 1470-1472, workflow_client.py 327-331 and 287-298)
DelIssue ==
    /\ delPc = "loop"
    /\ delIdx <= Len(workflows_to_delete)
    /\ delRequests' = Append(delRequests,
           [name |-> workflows_to_delete[delIdx],
            policy |-> propagation_policy(~delArgs.retain_logs),
            outcome |-> "pending"])
    /\ delPc' = "inflight"
    /\ UNCHANGED <<wfStore, wfLabelled, delOp, delArgs, workflows_to_delete, delIdx,
                   deleted_count, failed_count, delResult>>
    /\ UNCHANGED notDel

\* the cli counts a failure (cli.py 1474-1476)
cli_failed(n) == n + 1
\* delete_workflows_by_labels passes over it (workflow_client.py 333-335)
by_labels_failed(n) == n

\* the remote answers the delete request; the loop accounts for it
DelReturn ==
    /\ delPc = "inflight"
    /\ LET name == workflows_to_delete[delIdx] IN
       \E resp \in {Ok} \cup DeleteErrors :
        /\ resp = Ok => name \in wfStore
        /\ resp = ApiException(404) => name \notin wfStore
        /\ LET r == delete_workflow(resp) IN
           /\ IsException(r.cls)
           /\ wfStore' = IF r.raised THEN wfStore ELSE wfStore \ {name}
           /\ deleted_count' = IF r.raised THEN deleted_count ELSE deleted_count + 1
           /\ failed_count' =
                IF ~r.raised THEN failed_count
                ELSE IF delOp = "cli" THEN cli_failed(failed_count)
                ELSE by_labels_failed(failed_count)
           /\ delRequests' = [delRequests EXCEPT ![Len(delRequests)].outcome =
                                 IF r.raised THEN "failed" ELSE "ok"]
    /\ delIdx' = delIdx + 1
    /\ delPc' = "loop"
    /\ UNCHANGED <<wfLabelled, delOp, delArgs, workflows_to_delete, delResult>>
    /\ UNCHANGED notDel

\* what the caller gets: the cli reports both counts (cli.py 1478-1484),
\* delete_workflows_by_labels returns deleted_count alone (line 337)
delete_result ==
    IF delOp = "cli"
    THEN [deletedCount |-> deleted_count, failedCount |-> failed_count]
    ELSE [deletedCount |-> deleted_count]

DelFinish ==
    /\ delPc = "loop"
    /\ delIdx > Len(workflows_to_delete)
    /\ delPc' = "done"
    /\ delResult' = delete_result
    /\ UNCHANGED <<wfStore, wfLabelled, delOp, delArgs, workflows_to_delete, delIdx,
                   deleted_count, failed_count, delRequests>>
    /\ UNCHANGED notDel

\* another client removes a workflow while the command runs
RemoteDeleteByOther ==
    /\ delPc \in {"confirm", "loop"}
    /\ \E w \in wfStore : wfStore' = wfStore \ {w}
    /\ UNCHANGED <<wfLabelled, delOp, delArgs, delPc, delLoopVars>>
    /\ UNCHANGED notDel

NextDelete ==
    \/ DelInvalidArgs
    \/ DelCheckName
    \/ DelListCli
    \/ DelNothingSelected
    \/ DelConfirm
    \/ DelListByLabels
    \/ DelIssue
    \/ DelReturn
    \/ DelFinish
    \/ RemoteDeleteByOther

SpecDelete == InitDelete /\ [][NextDelete]_vars

----------------------------------------------------------------------------
(* C2 *)

RequestsFor(name) == {j \in 1..Len(delRequests) : delRequests[j].name = name}
RequestsWith(outcome) == {j \in 1..Len(delRequests) : delRequests[j].outcome = outcome}

\* Every matched instance gets exactly one delete attempt, whatever the
\* outcome of the others, in the command and in delete_workflows_by_labels.
DeleteAttemptsEachOnce ==
    delPc = "done" =>
        /\ Len(delRequests) = Len(workflows_to_delete)
        /\ \A i \in 1..Len(workflows_to_delete) :
             Cardinality(RequestsFor(workflows_to_delete[i])) = 1

\* The command accounts for every attempt.
CliDeleteCounts ==
    (delPc = "done" /\ delOp = "cli") =>
        /\ delResult.deletedCount = Cardinality(RequestsWith("ok"))
        /\ delResult.failedCount = Cardinality(RequestsWith("failed"))
        /\ delResult.deletedCount + delResult.failedCount = Len(workflows_to_delete)

\* the failed count the caller is given (none given: no failure reported)
ReportedFailed ==
    IF "failedCount" \in DOMAIN delResult THEN delResult.failedCount ELSE 0

\* C2: deleteMany gives every matched instance exactly one delete attempt and
\* always returns both counts: deletedCount the number of successful deletes,
\* failedCount the number of failed ones, together the size of the matched set.
C2_DeleteManyReturnsBothCounts ==
    delPc = "done" =>
        /\ Len(delRequests) = Len(workflows_to_delete)
        /\ \A i \in 1..Len(workflows_to_delete) :
             Cardinality(RequestsFor(workflows_to_delete[i])) = 1
        /\ delResult.deletedCount = Cardinality(RequestsWith("ok"))
        /\ ReportedFailed = Cardinality(RequestsWith("failed"))
        /\ delResult.deletedCount + ReportedFailed = Len(workflows_to_delete)

----------------------------------------------------------------------------
(* workflow_client.py: get_workflow_logs *)

\* status.nodes of the workflow read, in the map's order: the node under key
\* i is named Node(i); display names repeat across nodes
NodeIds == 1..MaxNodes
Node(i) == <<"node", i>>
StepNames == {<<"step", 1>>, <<"step", 2>>}
NodeTypes == {"Pod", "Steps"}
NoStep == <<"none", 0>>

NodeFields == [displayName : StepNames, type : NodeTypes, phase : {"Running", "Succeeded"}]

\* the node under key i: its id and name are its own
NodeData(i, f) ==
    [id |-> i, name |-> Node(i), displayName |-> f.displayName,
     type |-> f.type, phase |-> f.phase]

\* the node maps: keys 1..k
NodeMaps ==
    UNION {{[i \in 1..k |-> NodeData(i, f[i])] : f \in [1..k -> NodeFields]} : k \in 0..MaxNodes}

\* dict comprehension of lines 401-413, in the map's order
RECURSIVE FilterNodes(_, _)
FilterNodes(nodes, step) ==
    IF nodes = <<>> THEN <<>>
    ELSE LET node_data == Head(nodes)
             keep == IF step # NoStep
                     THEN node_data.displayName = step \/ node_data.name = step
                     ELSE node_data.type = "Pod"
         IN (IF keep THEN <<node_data>> ELSE <<>>) \o FilterNodes(Tail(nodes), step)

LogLine(kind, node_data) ==
    [kind |-> kind, step |-> node_data.displayName, pod |-> node_data.id]

\* lines 428-430: header, the pod's log text, a blank line
LogsOfUnit(node_data) ==
    <<LogLine("header", node_data), LogLine("content", node_data), LogLine("blank", node_data)>>

\* lines 431-436: the placeholder of a unit whose read raised ApiException
PlaceholderOfUnit(node_data, e) ==
    <<LogLine(IF StatusIs(e, 404) THEN "notfound" ELSE "failed", node_data),
      LogLine("blank", node_data)>>

\* the except clauses that end the call, lines 439-445
get_workflow_logs_raise(e) ==
    IF e.cls = "ApiException"
    THEN IF StatusIs(e, 404) THEN Raise("WorkflowNotFoundError", "not found")
         ELSE LET error == handle_kubernetes_api_exception(e, "Workflow") IN
              IF error.raised THEN error
              ELSE Raise("KubernetesAPIError", "Failed to get workflow logs")
    ELSE IF IsException(e.cls)
    THEN Raise("KubernetesAPIError", "Unexpected error getting workflow logs")
    ELSE Raise(e.cls, "")

\* the inner handler of lines 431-436 catches ApiException alone
CaughtPerUnit(e) == e.cls = "ApiException"

ReadErrors ==
    {ApiException(404), ApiException(500), ApiExceptionNoStatus, TransportError}

InitLogs ==
    /\ TcIdle
    /\ CmdIdle
    /\ FrameIdle
    /\ TimeoutIdle
    /\ ClassIdle
    /\ ValIdle /\ DelIdle /\ FetchIdle /\ PollIdle /\ SubmitIdle /\ ApplyIdle /\ GenIdle
    /\ StreamIdle
    /\ logNodes \in NodeMaps
    /\ logStep \in {NoStep} \cup StepNames \cup {Node(1)}
    /\ logPc = "start"
    /\ target_nodes = <<>>
    /\ logIdx = 1
    /\ logs = <<>>
    /\ logReads = <<>>
    /\ logResult = NoResult

\* lines 386-413: read the workflow, resolve the units
LogsGetWorkflow ==
    /\ logPc = "start"
    /\ \E resp \in {Ok, ApiException(404), ApiException(500), TransportError} :
        IF resp = Ok
        THEN /\ target_nodes' = FilterNodes(logNodes, logStep)
             /\ logPc' = "read"
             /\ logResult' = logResult
        ELSE /\ target_nodes' = <<>>
             /\ logPc' = "raised"
             /\ logResult' = get_workflow_logs_raise(resp)
    /\ UNCHANGED <<logNodes, logStep, logIdx, logs, logReads>>
    /\ UNCHANGED notLog

\* lines 416-436: one unit's log read
LogsReadUnit ==
    /\ logPc = "read"
    /\ logIdx <= Len(target_nodes)
    /\ LET node_data == target_nodes[logIdx] IN
       \E resp \in {Ok} \cup ReadErrors :
        /\ logReads' = Append(logReads, [pod |-> node_data.id, step |-> node_data.displayName, resp |-> resp])
        /\ IF resp = Ok
           THEN /\ logs' = logs \o LogsOfUnit(node_data)
                /\ logIdx' = logIdx + 1
                /\ UNCHANGED <<logPc, logResult>>
           ELSE IF CaughtPerUnit(resp)
           THEN /\ logs' = logs \o PlaceholderOfUnit(node_data, resp)
                /\ logIdx' = logIdx + 1
                /\ UNCHANGED <<logPc, logResult>>
           ELSE /\ logPc' = "raised"
                /\ logResult' = get_workflow_logs_raise(resp)
                /\ UNCHANGED <<logs, logIdx>>
    /\ UNCHANGED <<logNodes, logStep, target_nodes>>
    /\ UNCHANGED notLog

\* line 438
LogsReturn ==
    /\ logPc = "read"
    /\ logIdx > Len(target_nodes)
    /\ logPc' = "done"
    /\ logResult' = Return(IF logs # <<>> THEN logs
                           ELSE <<[kind |-> "nologs", step |-> NoStep, pod |-> 0]>>)
    /\ UNCHANGED <<logNodes, logStep, target_nodes, logIdx, logs, logReads>>
    /\ UNCHANGED notLog

NextLogs ==
    \/ LogsGetWorkflow
    \/ LogsReadUnit
    \/ LogsReturn

SpecLogs == InitLogs /\ [][NextLogs]_vars

----------------------------------------------------------------------------
(* C3 *)

HasLine(text, kind, pod) == \E i \in 1..Len(text) : text[i].kind = kind /\ text[i].pod = pod

\* With ApiException as the only per-unit failure, the text holds every unit
\* read: its content, or its placeholder.
FetchLogsKeepsApiFailures ==
    logPc = "done" =>
        \A i \in 1..Len(logReads) :
            IF logReads[i].resp = Ok
            THEN HasLine(logResult.val, "content", logReads[i].pod)
            ELSE \/ HasLine(logResult.val, "notfound", logReads[i].pod)
                 \/ HasLine(logResult.val, "failed", logReads[i].pod)

\* C3: fetchLogs never raises on account of a unit's log read: whatever each
\* read did (success, not-found, any other failure), once units are being
\* read the call returns, with the content of every unit read successfully
\* and a labeled placeholder for every unit whose read failed.
C3_FetchLogsNeverAbortsOnUnitFailure ==
    /\ logReads # <<>> => logPc # "raised"
    /\ logPc = "done" =>
        /\ ~logResult.raised
        /\ \A i \in 1..Len(logReads) :
            IF logReads[i].resp = Ok
            THEN HasLine(logResult.val, "content", logReads[i].pod)
            ELSE \/ HasLine(logResult.val, "notfound", logReads[i].pod)
                 \/ HasLine(logResult.val, "failed", logReads[i].pod)

----------------------------------------------------------------------------
(* workflow_client.py: get_workflow_status *)

\* A timestamp field of the remote status: the key is absent, or holds null,
\* a string or a number. A string is a sequence of tokens: "D" a date and
\* time 2024-01-01T00:00:00, "Z" the letter Z, "+00:00" a UTC offset, "x"
\* any other text.
TsAbsent == [t |-> "absent", s |-> <<>>]
TsNull == [t |-> "null", s |-> <<>>]
TsInt == [t |-> "int", s |-> <<>>]
TsStr(s) == [t |-> "str", s |-> s]

NoneTime == [t |-> "none", tz |-> "none"]
DateTime(tz) == [t |-> "datetime", tz |-> tz]

\* `if status.get("startedAt")`
TsTruthy(raw) == raw.t = "int" \/ (raw.t = "str" /\ raw.s # <<>>)

\* str.replace("Z", "+00:00")
ReplaceZ(s) == [i \in DOMAIN s |-> IF s[i] = "Z" THEN "+00:00" ELSE s[i]]

\* datetime.fromisoformat(raw.replace("Z", "+00:00")): a number has no
\* replace (AttributeError), a string that is no ISO timestamp is a ValueError
fromisoformat_replace(raw) ==
    IF raw.t # "str" THEN [exc |-> "AttributeError", val |-> NoneTime]
    ELSE LET s == ReplaceZ(raw.s) IN
         IF s = <<"D">> THEN [exc |-> "none", val |-> DateTime("naive")]
         ELSE IF s = <<"D", "+00:00">> THEN [exc |-> "none", val |-> DateTime("utc")]
         ELSE [exc |-> "ValueError", val |-> NoneTime]

\* except (ValueError, AttributeError): pass
CaughtTsValueErrorOnly == {"ValueError"}
CaughtTs == {"ValueError", "AttributeError"}

\* lines 173-179 (and 181-186, 191-196, 198-203): the field stays None unless
\* it is truthy and parses
parse_timestamp(raw) ==
    IF ~TsTruthy(raw) THEN [exc |-> "none", val |-> NoneTime]
    ELSE LET r == fromisoformat_replace(raw) IN
         IF r.exc \in CaughtTs THEN [exc |-> "none", val |-> NoneTime] ELSE r

\* an optional field of the remote representation, and dict.get(key, default)
Some(v) == [has |-> TRUE, v |-> v]
Missing == [has |-> FALSE, v |-> ""]
Get(field, default) == IF field.has THEN field.v ELSE default

\* lines 190-213: the record built for the entry node_id -> node_data of the
\* node map; the key is used only where the entry has no name
decode_node(node_id, node_data) ==
    [name |-> Get(node_data.name, node_id),
     display_name |-> Get(node_data.displayName, Get(node_data.name, node_id)),
     type |-> Get(node_data.type, "Unknown"),
     phase |-> Get(node_data.phase, "Unknown"),
     message |-> "",
     started_at |-> parse_timestamp(node_data.startedAt).val,
     finished_at |-> parse_timestamp(node_data.finishedAt).val]

TsFieldsOf(workflow) ==
    {workflow.startedAt, workflow.finishedAt}
    \cup {workflow.nodes[i].startedAt : i \in DOMAIN workflow.nodes}
    \cup {workflow.nodes[i].finishedAt : i \in DOMAIN workflow.nodes}

\* lines 168-224: the snapshot decoded from the workflow read; an exception
\* the timestamp handlers let through ends in the handler of lines 230-231
decode_status(workflow) ==
    IF \E raw \in TsFieldsOf(workflow) : parse_timestamp(raw).exc # "none"
    THEN Raise("KubernetesAPIError", "Unexpected error getting workflow status")
    ELSE Return(
        [phase |-> Get(workflow.phase, "Unknown"),
         started_at |-> parse_timestamp(workflow.startedAt).val,
         finished_at |-> parse_timestamp(workflow.finishedAt).val,
         progress |-> Get(workflow.progress, "0/0"),
         message |-> "",
         nodes |-> [i \in DOMAIN workflow.nodes |-> decode_node(Node(i), workflow.nodes[i])]])

\* the except clauses of lines 225-231
get_workflow_status_raise(e) ==
    IF e.cls = "ApiException"
    THEN IF StatusIs(e, 404) THEN Raise("WorkflowNotFoundError", "not found")
         ELSE LET error == handle_kubernetes_api_exception(e, "Workflow") IN
              IF error.raised THEN error
              ELSE Raise("KubernetesAPIError", "Failed to get workflow status")
    ELSE IF IsException(e.cls)
    THEN Raise("KubernetesAPIError", "Unexpected error getting workflow status")
    ELSE Raise(e.cls, "")

\* the whole call, for the remote's response
get_workflow_status(resp, workflow) ==
    IF resp = Ok THEN decode_status(workflow) ELSE get_workflow_status_raise(resp)

\* the remote representations read: every timestamp field ranges over the
\* kinds of value it may hold
TsValues == {TsAbsent, TsInt, TsStr(<<>>), TsStr(<<"x">>), TsStr(<<"D">>), TsStr(<<"D", "Z">>)}
NodeTsValues == {TsAbsent, TsInt, TsStr(<<"x">>), TsStr(<<"D", "Z">>)}

\* a node carries the name and display name of its step, the same for every
\* attempt of the step, or none
MissingName == [has |-> FALSE, v |-> <<>>]
NodeNamings == {[name |-> Some(<<"step", 1>>), displayName |-> Some(<<"step", 1>>)],
                [name |-> MissingName, displayName |-> MissingName]}

StatusNodeFields ==
    [naming : NodeNamings, startedAt : NodeTsValues,
     finishedAt : {TsAbsent, TsStr(<<"x">>)}]

\* the entry under key i of the node map
StatusNode(i, f) ==
    [id |-> i, name |-> f.naming.name, displayName |-> f.naming.displayName,
     type |-> Some("Pod"), phase |-> Some("Running"),
     startedAt |-> f.startedAt, finishedAt |-> f.finishedAt]

StatusNodeMaps ==
    UNION {{[i \in 1..k |-> StatusNode(i, f[i])] : f \in [1..k -> StatusNodeFields]}
           : k \in 0..MaxNodes}

WorkflowObjects ==
    [phase : {Missing, Some("Running")},
     progress : {Some("1/2")},
     startedAt : TsValues, finishedAt : TsValues,
     nodes : StatusNodeMaps]

NoWorkflow ==
    [phase |-> Missing, progress |-> Missing, startedAt |-> TsAbsent,
     finishedAt |-> TsAbsent, nodes |-> <<>>]

InitFetch ==
    /\ TcIdle
    /\ CmdIdle
    /\ FrameIdle
    /\ TimeoutIdle
    /\ ClassIdle
    /\ ValIdle /\ DelIdle /\ LogIdle /\ PollIdle /\ SubmitIdle /\ ApplyIdle /\ GenIdle
    /\ StreamIdle
    /\ fetchPc = "start"
    /\ fetchResp = Ok
    /\ fetchWf = NoWorkflow
    /\ fetchResult = NoResult

\* the read answers with the workflow
FetchOk ==
    /\ fetchPc = "start"
    /\ \E workflow \in WorkflowObjects :
        /\ fetchWf' = workflow
        /\ fetchResult' = get_workflow_status(Ok, workflow)
    /\ fetchResp' = Ok
    /\ fetchPc' = "done"
    /\ UNCHANGED notFetch

\* the read fails
FetchFail ==
    /\ fetchPc = "start"
    /\ \E e \in RemoteErrors :
        /\ fetchResp' = e
        /\ fetchResult' = get_workflow_status(e, NoWorkflow)
    /\ fetchWf' = NoWorkflow
    /\ fetchPc' = "done"
    /\ UNCHANGED notFetch

NextFetch ==
    \/ FetchOk
    \/ FetchFail

SpecFetch == InitFetch /\ [][NextFetch]_vars

----------------------------------------------------------------------------
(* C4 *)

ParsableTs == {<<"D">>, <<"D", "Z">>, <<"D", "+00:00">>}

\* the field is there and is no parsable timestamp
Malformed(raw) == raw.t # "absent" /\ ~(raw.t = "str" /\ raw.s \in ParsableTs)

RepairTs(raw) == IF Malformed(raw) THEN TsStr(<<"D", "Z">>) ELSE raw

\* the workflow with a valid timestamp in place of each malformed one
Repair(workflow) ==
    [workflow EXCEPT
        !.startedAt = RepairTs(@),
        !.finishedAt = RepairTs(@),
        !.nodes = [i \in DOMAIN @ |->
                      [@[i] EXCEPT !.startedAt = RepairTs(@), !.finishedAt = RepairTs(@)]]]

\* a decoded time compared with the one decoded from the repaired workflow:
\* absent where the field was malformed, the same elsewhere
DegradedOnly(raw, got, repaired) ==
    IF Malformed(raw) THEN got = NoneTime ELSE got = repaired

\* C4: whatever subset of the startedAt/finishedAt fields of the instance and
\* of its nodes is malformed, fetch succeeds, returns exactly those fields as
\* absent, and returns every other field and node as for valid timestamps.
C4_MalformedTimestampDegradesToAbsent ==
    (fetchPc = "done" /\ fetchResp = Ok) =>
        /\ ~fetchResult.raised
        /\ LET got == fetchResult.val
               ref == decode_status(Repair(fetchWf)).val
           IN /\ DegradedOnly(fetchWf.startedAt, got.started_at, ref.started_at)
              /\ DegradedOnly(fetchWf.finishedAt, got.finished_at, ref.finished_at)
              /\ got.phase = ref.phase
              /\ got.progress = ref.progress
              /\ got.message = ref.message
              /\ DOMAIN got.nodes = DOMAIN fetchWf.nodes
              /\ \A i \in DOMAIN got.nodes :
                    /\ DegradedOnly(fetchWf.nodes[i].startedAt,
                                    got.nodes[i].started_at, ref.nodes[i].started_at)
                    /\ DegradedOnly(fetchWf.nodes[i].finishedAt,
                                    got.nodes[i].finished_at, ref.nodes[i].finished_at)
                    /\ got.nodes[i].name = ref.nodes[i].name
                    /\ got.nodes[i].display_name = ref.nodes[i].display_name
                    /\ got.nodes[i].type = ref.nodes[i].type
                    /\ got.nodes[i].phase = ref.nodes[i].phase
                    /\ got.nodes[i].message = ref.nodes[i].message

\* the spec's example: a node whose startedAt is "not-a-date", beside a node
\* with valid timestamps, in a workflow whose own start time is a number
C4_Witness ==
    /\ fetchPc = "done" /\ fetchResp = Ok
    /\ ~fetchResult.raised
    /\ Len(fetchWf.nodes) = 2
    /\ fetchWf.nodes[1].startedAt = TsStr(<<"x">>)
    /\ fetchResult.val.nodes[1].started_at = NoneTime
    /\ fetchWf.nodes[2].startedAt = TsStr(<<"D", "Z">>)
    /\ fetchResult.val.nodes[2].started_at = DateTime("utc")
    /\ fetchWf.startedAt = TsInt
    /\ fetchResult.val.started_at = NoneTime

----------------------------------------------------------------------------
(* formatters.py: format_workflow_status, as far as it can raise *)

\* _format_duration, lines 75-80: finished_at - started_at needs two
\* datetimes of the same kind; without finished_at, started_at.tzinfo is read
format_duration_raises(started_at, finished_at) ==
    IF finished_at # NoneTime
    THEN started_at = NoneTime \/ started_at.tz # finished_at.tz
    ELSE started_at = NoneTime

\* lines 191-199 and 222-227: status.started_at.strftime(...), the workflow's
\* duration, and each node's duration
format_workflow_status_raises(st) ==
    \/ st.started_at = NoneTime
    \/ format_duration_raises(st.started_at, st.finished_at)
    \/ \E i \in DOMAIN st.nodes :
          format_duration_raises(st.nodes[i].started_at, st.nodes[i].finished_at)

----------------------------------------------------------------------------
(* cli.py: workflows status --watch *)

\* line 1163
TerminalListWithoutError == {"Succeeded", "Failed"}
TerminalList == {"Succeeded", "Failed", "Error"}

\* a loop without the inner KeyboardInterrupt handler
watch_handler_outer_only(cls) ==
    IF IsException(cls) THEN "error" ELSE "escaped"

\* where an exception raised inside the loop ends: the inner handler of line
\* 1169 takes KeyboardInterrupt, the outer one of line 1194 every Exception
watch_handler(cls) ==
    IF cls = "KeyboardInterrupt" THEN "stopped"
    ELSE IF IsException(cls) THEN "error"
    ELSE "escaped"

PollLoopPcs == {"fetch", "fetching", "render", "check", "sleep"}

\* the remote workflow watched: the controller moves its phase
\* Pending -> Running -> Succeeded | Failed | Error and fills in the rest
PollPhases == {Missing, Some("Pending"), Some("Running"), Some("Succeeded"),
               Some("Failed"), Some("Error")}
PollTsValues == {TsAbsent, TsStr(<<"x">>), TsStr(<<"D", "Z">>)}

PollNodeMaps ==
    {<<>>} \cup {<<StatusNode(1, [naming |-> [name |-> Some(<<"step", 1>>),
                                                   displayName |-> Some(<<"step", 1>>)],
                                       startedAt |-> s, finishedAt |-> TsAbsent])>> :
                    s \in {TsAbsent, TsStr(<<"D", "Z">>)}}

PollWorkflows ==
    [phase : PollPhases, progress : {Some("1/2")},
     startedAt : PollTsValues, finishedAt : {TsAbsent, TsStr(<<"D", "Z">>)},
     nodes : PollNodeMaps]

NextPhases(phase) ==
    IF phase = Missing THEN {Some("Pending")}
    ELSE IF phase = Some("Pending") THEN {Some("Running")}
    ELSE IF phase = Some("Running") THEN {Some("Succeeded"), Some("Failed"), Some("Error")}
    ELSE {}

NoSnapshot == [has |-> FALSE, val |-> <<>>]

InitPoll ==
    /\ TcIdle
    /\ CmdIdle
    /\ FrameIdle
    /\ TimeoutIdle
    /\ ClassIdle
    /\ ValIdle /\ DelIdle /\ LogIdle /\ FetchIdle /\ SubmitIdle /\ ApplyIdle /\ GenIdle
    /\ StreamIdle
    /\ pollRemote \in PollWorkflows
    /\ pollGone = FALSE
    /\ pollPc = "fetch"
    /\ status = NoSnapshot
    /\ fetchCount = 0
    /\ pollExc = "none"
    /\ lastFetchFailed = FALSE
    /\ interruptedAt = "none"
    /\ fetchesAtInterrupt = 0

pollGhost == <<lastFetchFailed, interruptedAt, fetchesAtInterrupt>>

\* lines 1153-1158: the status read goes out
PollFetchIssue ==
    /\ pollPc = "fetch"
    /\ fetchCount < MaxFetches
    /\ fetchCount' = fetchCount + 1
    /\ pollPc' = "fetching"
    /\ UNCHANGED <<pollRemote, pollGone, status, pollExc, pollGhost>>
    /\ UNCHANGED notPoll

\* line 1158: the read returns the snapshot, or raises; nothing inside the
\* loop catches an Exception
PollFetchReturn ==
    /\ pollPc = "fetching"
    /\ \E resp \in {Ok, ApiException(404), ApiException(500), TransportError} :
        /\ resp = Ok => ~pollGone
        /\ resp = ApiException(404) => pollGone
        /\ LET r == get_workflow_status(resp, pollRemote) IN
           IF r.raised
           THEN /\ pollPc' = watch_handler(r.cls)
                /\ pollExc' = r.cls
                /\ status' = status
                /\ lastFetchFailed' = TRUE
           ELSE /\ pollPc' = "render"
                /\ pollExc' = pollExc
                /\ status' = [has |-> TRUE, val |-> r.val]
                /\ lastFetchFailed' = FALSE
    /\ UNCHANGED <<pollRemote, pollGone, fetchCount, interruptedAt, fetchesAtInterrupt>>
    /\ UNCHANGED notPoll

\* lines 1159-1160
PollRender ==
    /\ pollPc = "render"
    /\ IF format_workflow_status_raises(status.val)
       THEN /\ pollPc' = watch_handler("AttributeError")
            /\ pollExc' = "AttributeError"
       ELSE /\ pollPc' = "check"
            /\ pollExc' = pollExc
    /\ UNCHANGED <<pollRemote, pollGone, status, fetchCount, pollGhost>>
    /\ UNCHANGED notPoll

\* lines 1162-1165
PollCheck ==
    /\ pollPc = "check"
    /\ pollPc' = IF status.val.phase \in TerminalList THEN "done" ELSE "sleep"
    /\ UNCHANGED <<pollRemote, pollGone, status, fetchCount, pollExc, pollGhost>>
    /\ UNCHANGED notPoll

\* line 1168: the sleep ends
PollSleep ==
    /\ pollPc = "sleep"
    /\ pollPc' = "fetch"
    /\ UNCHANGED <<pollRemote, pollGone, status, fetchCount, pollExc, pollGhost>>
    /\ UNCHANGED notPoll

\* Ctrl+C at any point of an iteration; during the read it first passes the
\* handlers of get_workflow_status
PollCancel ==
    /\ pollPc \in PollLoopPcs
    /\ LET cls == IF pollPc = "fetching"
                  THEN get_workflow_status(KeyboardInterrupt, pollRemote).cls
                  ELSE "KeyboardInterrupt"
       IN /\ pollPc' = watch_handler(cls)
          /\ pollExc' = IF cls = "KeyboardInterrupt" THEN pollExc ELSE cls
    /\ interruptedAt' = pollPc
    /\ fetchesAtInterrupt' = fetchCount
    /\ UNCHANGED <<pollRemote, pollGone, status, fetchCount, lastFetchFailed>>
    /\ UNCHANGED notPoll

\* the remote controller moves the workflow on
RemoteStep ==
    /\ ~pollGone
    /\ \E p \in NextPhases(pollRemote.phase), s \in PollTsValues,
          f \in {TsAbsent, TsStr(<<"D", "Z">>)}, n \in PollNodeMaps :
        pollRemote' = [pollRemote EXCEPT !.phase = p, !.startedAt = s,
                                         !.finishedAt = f, !.nodes = n]
    /\ UNCHANGED <<pollGone, pollPc, status, fetchCount, pollExc, pollGhost>>
    /\ UNCHANGED notPoll

\* somebody deletes the workflow
RemoteGone ==
    /\ ~pollGone
    /\ pollGone' = TRUE
    /\ UNCHANGED <<pollRemote, pollPc, status, fetchCount, pollExc, pollGhost>>
    /\ UNCHANGED notPoll

NextPoll ==
    \/ PollFetchIssue
    \/ PollFetchReturn
    \/ PollRender
    \/ PollCheck
    \/ PollSleep
    \/ PollCancel
    \/ RemoteStep
    \/ RemoteGone

SpecPoll == InitPoll /\ [][NextPoll]_vars

----------------------------------------------------------------------------
(* C5 - C8 *)

TerminalPhases == {"Succeeded", "Failed", "Error"}

\* the latest snapshot fetched reports a terminal Phase
TerminalSeen == status.has /\ status.val.phase \in TerminalPhases

\* C5: once a fetch in the loop reports a terminal Phase the loop is on its
\* way out (it never sleeps or fetches again) and no further status read is
\* issued, whatever the remote does afterwards.
C5_NoFetchAfterTerminal ==
    /\ [](TerminalSeen => pollPc \in {"render", "check", "done", "stopped", "error"})
    /\ [][TerminalSeen => fetchCount' = fetchCount]_vars

\* a terminal snapshot ended the loop while the remote went on changing
C5_Witness ==
    /\ TerminalSeen
    /\ pollPc = "done"
    /\ status.val.phase = "Error"
    /\ pollGone
    /\ fetchCount >= 2

\* C6: a fetch failure inside the loop does not by itself end the loop: after
\* a failed fetch the loop goes on to sleep and fetch again, unless the caller
\* cancels.
C6_FetchFailureDoesNotEndLoop ==
    lastFetchFailed => pollPc \in {"sleep", "fetch", "fetching", "stopped"}

\* C7: the loop stops only when the latest snapshot is terminal or the caller
\* cancels: after a fetch that succeeded with a non-terminal Phase, and
\* without a cancellation, the loop has not ended (another fetch follows).
C7_StopsOnlyWhenTerminalOrCancelled ==
    (status.has /\ ~lastFetchFailed /\ interruptedAt = "none"
        /\ status.val.phase \notin TerminalPhases)
    => pollPc \in PollLoopPcs

\* C8: a cancellation arriving at any point of an iteration (during the
\* fetch, the rendering, the check or the sleep) ends the loop normally: no
\* error is raised and no further fetch is issued.
C8_CancelIsClean ==
    interruptedAt # "none" =>
        /\ pollPc = "stopped"
        /\ pollExc = "none"
        /\ fetchCount = fetchesAtInterrupt

\* cancelled while the status read was in flight, in a later iteration
C8_Witness ==
    /\ interruptedAt = "fetching"
    /\ pollPc = "stopped"
    /\ fetchCount >= 2

----------------------------------------------------------------------------
(* workflow_client.py: submit_workflow, and its caller in cli.py *)

\* cli.py lines 600 and 978
TemplateNames == {"create-argocd-application", "create-argocd-applicationset"}

\* the parameter dictionaries submitted: every value is a string
SubmitParameters ==
    UNION {[S -> {"v", ""}] : S \in SUBSET {"a", "b"}}

\* lines 101-118: the Workflow object sent
workflow_body(template_name, parameters) ==
    [generateName |-> template_name,
     workflowTemplateRef |-> template_name,
     parameters |-> parameters]

\* lines 120-143: what the call returns or raises for the remote's answer;
\* `name` is response["metadata"]["name"], when the response has it
submit_workflow(resp, name) ==
    IF resp = Ok
    THEN IF name.has
         THEN Return(name.v)
         ELSE Raise("WorkflowSubmissionError", "Unexpected error submitting workflow")
    ELSE IF resp.cls = "ApiException"
    THEN IF StatusIs(resp, 404) THEN Raise("ResourceNotFoundError", "WorkflowTemplate not found")
         ELSE IF StatusIs(resp, 422)
         THEN Raise("WorkflowSubmissionError", "Invalid workflow specification")
         ELSE LET error == handle_kubernetes_api_exception(resp, "Workflow") IN
              IF error.raised THEN error
              ELSE Raise("WorkflowSubmissionError", "Failed to submit workflow")
    ELSE IF IsException(resp.cls)
    THEN Raise("WorkflowSubmissionError", "Unexpected error submitting workflow")
    ELSE Raise(resp.cls, "")

\* cli.py lines 597-609: every Exception of the call becomes a ClickException
submit_app_outcome(r) ==
    IF ~r.raised THEN "submitted"
    ELSE IF IsException(r.cls) THEN "ClickException"
    ELSE "aborted"

NoName == [has |-> FALSE, v |-> <<>>]

InitSubmit ==
    /\ TcIdle
    /\ CmdIdle
    /\ FrameIdle
    /\ TimeoutIdle
    /\ ClassIdle
    /\ ValIdle /\ DelIdle /\ LogIdle /\ FetchIdle /\ PollIdle /\ ApplyIdle /\ GenIdle
    /\ StreamIdle
    /\ submitTemplate \in TemplateNames
    /\ submitParams \in SubmitParameters
    /\ submitPc = "start"
    /\ submitCalls = 1
    /\ createRequests = 0
    /\ lastBody = <<>>
    /\ instances = {}
    /\ submitResp = Ok
    /\ submitRespName = NoName
    /\ submitResult = NoResult
    /\ cliSubmit = "running"

\* lines 120-128: the create request goes out
SubmitIssue ==
    /\ submitPc = "start"
    /\ createRequests' = createRequests + 1
    /\ lastBody' = workflow_body(submitTemplate, submitParams)
    /\ submitPc' = "requested"
    /\ UNCHANGED <<submitTemplate, submitParams, submitCalls, instances,
                   submitResp, submitRespName, submitResult, cliSubmit>>
    /\ UNCHANGED notSubmit

\* the remote creates the workflow under a generated name and answers; the
\* answer may lack the name, or be lost on the way back
RemoteCreates ==
    /\ submitPc = "requested"
    /\ LET id == <<lastBody.generateName, Cardinality(instances) + 1>> IN
        /\ instances' = instances \cup {[name |-> id, body |-> lastBody]}
        /\ \/ submitResp' = Ok /\ submitRespName' = [has |-> TRUE, v |-> id]
           \/ submitResp' = Ok /\ submitRespName' = NoName
           \/ submitResp' = TransportError /\ submitRespName' = NoName
    /\ submitPc' = "responded"
    /\ UNCHANGED <<submitTemplate, submitParams, submitCalls, createRequests,
                   lastBody, submitResult, cliSubmit>>
    /\ UNCHANGED notSubmit

\* the remote refuses, or cannot be reached
RemoteRejects ==
    /\ submitPc = "requested"
    /\ submitResp' \in RemoteErrors
    /\ submitRespName' = NoName
    /\ submitPc' = "responded"
    /\ UNCHANGED <<submitTemplate, submitParams, submitCalls, createRequests,
                   lastBody, instances, submitResult, cliSubmit>>
    /\ UNCHANGED notSubmit

\* a variant that goes back to the request after a server error
SubmitReturnRetrying ==
    /\ submitPc = "responded"
    /\ LET r == submit_workflow(submitResp, submitRespName) IN
        /\ submitResult' = r
        /\ cliSubmit' = submit_app_outcome(r)
        /\ submitPc' = IF submitResp.hasStatus /\ submitResp.status >= 500
                       THEN "start" ELSE "returned"
    /\ UNCHANGED <<submitTemplate, submitParams, submitCalls, createRequests,
                   lastBody, instances, submitResp, submitRespName>>
    /\ UNCHANGED notSubmit

\* lines 130-143 and cli.py 603-609: the call ends with the name or an error;
\* nothing loops back to the request
SubmitReturn ==
    /\ submitPc = "responded"
    /\ LET r == submit_workflow(submitResp, submitRespName) IN
        /\ submitResult' = r
        /\ cliSubmit' = submit_app_outcome(r)
    /\ submitPc' = "returned"
    /\ UNCHANGED <<submitTemplate, submitParams, submitCalls, createRequests,
                   lastBody, instances, submitResp, submitRespName>>
    /\ UNCHANGED notSubmit

\* the user runs the command again
SubmitAgain ==
    /\ submitPc = "returned"
    /\ submitCalls < MaxSubmits
    /\ submitCalls' = submitCalls + 1
    /\ submitTemplate' \in TemplateNames
    /\ submitParams' \in SubmitParameters
    /\ submitPc' = "start"
    /\ submitResult' = NoResult
    /\ cliSubmit' = "running"
    /\ UNCHANGED <<createRequests, lastBody, instances, submitResp, submitRespName>>
    /\ UNCHANGED notSubmit

NextSubmit ==
    \/ SubmitIssue
    \/ RemoteCreates
    \/ RemoteRejects
    \/ SubmitReturn
    \/ SubmitAgain

SpecSubmit == InitSubmit /\ [][NextSubmit]_vars

----------------------------------------------------------------------------
(* C9, C10 *)

\* C9: submit is never retried: over any number of submit calls, whatever
\* each request's outcome, at most one create request has been issued per
\* call, and so at most one instance created per call.
C9_SubmitNeverRetried ==
    /\ createRequests <= submitCalls
    /\ Cardinality(instances) <= createRequests
    /\ submitPc \in {"responded", "returned"} => createRequests = submitCalls

\* a second call ended after a server error, with one request per call
C9_Witness ==
    /\ submitCalls = 2
    /\ submitPc = "returned"
    /\ StatusIs(submitResp, 503)
    /\ submitResult.raised
    /\ createRequests = 2

\* the outcome kinds of submit
OutcomeKind(r) ==
    IF ~r.raised THEN "instanceId"
    ELSE IF r.cls = "ResourceNotFoundError" THEN "TemplateNotFound"
    ELSE IF r.cls = "WorkflowSubmissionError" /\ r.msg = "Invalid workflow specification"
    THEN "InvalidSpec"
    ELSE IF r.cls = "WorkflowSubmissionError" THEN "SubmissionFailed"
    ELSE "other"

OutcomeMatchesResponse ==
    LET kind == OutcomeKind(submitResult) IN
    /\ kind # "other"
    /\ kind = "instanceId" <=> (submitResp = Ok /\ submitRespName.has)
    /\ kind = "instanceId" => submitResult.val = submitRespName.v
    /\ kind = "TemplateNotFound" <=> StatusIs(submitResp, 404)
    /\ kind = "InvalidSpec" <=> StatusIs(submitResp, 422)

\* for every response but an API error without a status, submit ends in the
\* outcome the response calls for
SubmitOutcomesWithStatus ==
    (submitPc = "returned" /\ submitResp # ApiExceptionNoStatus) => OutcomeMatchesResponse

\* C10: for every remote response submit ends in exactly one of the instance
\* id, TemplateNotFound (404), InvalidSpec (422) or SubmissionFailed (every
\* other failure, an error without a status included); no other kind of error
\* escapes.
C10_SubmitOutcomes ==
    submitPc = "returned" => OutcomeMatchesResponse

----------------------------------------------------------------------------
(* template_generator.py: TemplateGenerator.apply_template *)

TemplateKinds == {"application", "applicationset", "infrastructure"}

\* lines 51-54, 335-338, 587-590: metadata.name of each kind's template
template_name_of(kind) ==
    IF kind = "application" THEN "create-argocd-application"
    ELSE IF kind = "applicationset" THEN "create-argocd-applicationset"
    ELSE "provision-infrastructure"

ApplyNamespaces == {"argo", "ci"}

\* the documents handed to apply_template: a WorkflowTemplate of one kind
\* in one namespace with some content, or text that is not YAML
TemplateDocs ==
    [yaml : {TRUE}, name : {template_name_of(k) : k \in TemplateKinds},
     namespace : ApplyNamespaces, content : 1..MaxContents]
    \cup {[yaml |-> FALSE, name |-> "", namespace |-> "", content |-> 1]}

\* the remote identifies a template by namespace and name
TemplateKey(doc) == <<doc.namespace, doc.name>>

\* `kubectl create -f -`: refuses a template that exists
kubectl_create(store, doc) ==
    IF \E d \in store : TemplateKey(d) = TemplateKey(doc)
    THEN [returncode |-> 1, stderr |-> "already exists", store |-> store]
    ELSE [returncode |-> 0, stderr |-> "", store |-> store \cup {doc}]

\* lines 810-816: `kubectl apply -f -` creates the template, or replaces the
\* one stored under the same namespace and name
kubectl_apply(store, doc) ==
    [returncode |-> 0, stderr |-> "",
     store |-> {d \in store : TemplateKey(d) # TemplateKey(doc)} \cup {doc}]

\* what can keep kubectl from answering, whatever the document
KubectlFailures == {"forbidden", "not found", "invalid", "refused", "TimeoutExpired", "FileNotFoundError"}

\* lines 818-845: the call's outcome for the way the subprocess ended
apply_template_outcome(ended) ==
    IF ended = "ok" THEN Return(TRUE)
    ELSE IF ended = "forbidden" THEN Raise("TemplateError", "Permission denied")
    ELSE IF ended = "not found" THEN Raise("TemplateError", "Resource not found")
    ELSE IF ended = "invalid" THEN Raise("ValidationError", "Invalid template specification")
    ELSE IF ended = "TimeoutExpired"
    THEN Raise("TemplateError", "Template application timed out after 30 seconds")
    ELSE IF ended = "FileNotFoundError" THEN Raise("KubernetesAPIError", "kubectl command not found")
    ELSE Raise("TemplateError", "Failed to apply template")

InitApply ==
    /\ TcIdle
    /\ CmdIdle
    /\ FrameIdle
    /\ TimeoutIdle
    /\ ClassIdle
    /\ ValIdle /\ DelIdle /\ LogIdle /\ FetchIdle /\ PollIdle /\ SubmitIdle /\ GenIdle
    /\ StreamIdle
    /\ tplStore \in {{}, {[yaml |-> TRUE, name |-> template_name_of("application"),
                          namespace |-> "argo", content |-> 1]}}
    /\ applyDoc \in TemplateDocs
    /\ applyPc = "validate"
    /\ applyCalls = 1
    /\ applyEnded = "none"
    /\ applyResult = NoResult
    /\ prevApply = [doc |-> <<>>, ok |-> FALSE, store |-> {}]

\* an apply that hands every document to kubectl unexamined
ApplyWithoutValidate ==
    /\ applyPc = "validate"
    /\ applyPc' = "kubectl"
    /\ UNCHANGED <<tplStore, applyDoc, applyCalls, prevApply, applyResult, applyEnded>>
    /\ UNCHANGED notApply

\* lines 802-806: text that does not parse is refused before any request
ApplyValidate ==
    /\ applyPc = "validate"
    /\ IF applyDoc.yaml
       THEN /\ applyPc' = "kubectl"
            /\ UNCHANGED <<applyResult, applyEnded>>
       ELSE /\ applyPc' = "returned"
            /\ applyEnded' = "not yaml"
            /\ applyResult' = Raise("ValidationError", "Invalid YAML syntax")
    /\ UNCHANGED <<tplStore, applyDoc, applyCalls, prevApply>>
    /\ UNCHANGED notApply

\* lines 808-819: kubectl runs and the remote takes the document
ApplyKubectl ==
    /\ applyPc = "kubectl"
    /\ LET run == kubectl_apply(tplStore, applyDoc) IN
        /\ tplStore' = run.store
        /\ applyEnded' = IF run.returncode = 0 THEN "ok" ELSE run.stderr
        /\ applyResult' = apply_template_outcome(IF run.returncode = 0 THEN "ok" ELSE run.stderr)
    /\ applyPc' = "returned"
    /\ UNCHANGED <<applyDoc, applyCalls, prevApply>>
    /\ UNCHANGED notApply

\* lines 821-845: kubectl cannot run, is refused, or does not answer in 30 s
ApplyKubectlFails ==
    /\ applyPc = "kubectl"
    /\ \E f \in KubectlFailures :
        /\ applyEnded' = f
        /\ applyResult' = apply_template_outcome(f)
    /\ applyPc' = "returned"
    /\ UNCHANGED <<tplStore, applyDoc, applyCalls, prevApply>>
    /\ UNCHANGED notApply

\* apply_template is called again, with the same document or another one
ApplyAgain ==
    /\ applyPc = "returned"
    /\ applyCalls < MaxApplies
    /\ applyCalls' = applyCalls + 1
    /\ prevApply' = [doc |-> applyDoc, ok |-> ~applyResult.raised, store |-> tplStore]
    /\ applyDoc' \in TemplateDocs
    /\ applyPc' = "validate"
    /\ applyEnded' = "none"
    /\ applyResult' = NoResult
    /\ UNCHANGED tplStore
    /\ UNCHANGED notApply

NextApply ==
    \/ ApplyValidate
    \/ ApplyKubectl
    \/ ApplyKubectlFails
    \/ ApplyAgain

SpecApply == InitApply /\ [][NextApply]_vars

----------------------------------------------------------------------------
(* C11 *)

\* the call that just returned applied the document of the call before it,
\* which had succeeded, and kubectl was not kept from answering
AppliedTwice ==
    /\ applyPc = "returned"
    /\ prevApply.ok
    /\ prevApply.doc = applyDoc
    /\ applyEnded \notin KubectlFailures

\* C11: applying an identical document twice in a row succeeds both times and
\* leaves the template store as the first application left it: the second
\* call creates no template and changes none.
C11_ApplyIsIdempotent ==
    AppliedTwice =>
        /\ ~applyResult.raised
        /\ tplStore = prevApply.store
        /\ applyDoc \in tplStore

\* the same template document was applied twice, both times with success
C11_Witness ==
    /\ AppliedTwice
    /\ applyCalls = 2
    /\ ~applyResult.raised
    /\ applyDoc.content = 2
    /\ Cardinality(tplStore) = 2

----------------------------------------------------------------------------
(* template_generator.py: generate_*_template and _validate_yaml, with the
   scalar emitter and scanner of yaml.dump / yaml.safe_load *)

\* the characters a namespace is made of: a letter and the ones YAML gives a
\* meaning to
NsChars == {"a", ":", " ", "#", "'", "\"", "\n", "-"}
YamlWhite == {" ", "\n"}

Flatten(ss) ==
    LET RECURSIVE F(_)
        F(i) == IF i > Len(ss) THEN <<>> ELSE ss[i] \o F(i + 1)
    IN F(1)

\* emitter.analyze_scalar: what styles the text of a scalar allows
analyze_scalar(s) ==
    IF s = <<>>
    THEN [empty |-> TRUE, multiline |-> FALSE, allow_block_plain |-> FALSE,
          allow_single_quoted |-> TRUE]
    ELSE
    LET n == Len(s)
        followed_by_whitespace(i) == i = n \/ s[i + 1] \in YamlWhite
        preceded_by_whitespace(i) == i = 1 \/ s[i - 1] \in YamlWhite
        document_marker == n >= 3 /\ SubSeq(s, 1, 3) = <<"-", "-", "-">>
        block_indicators ==
            \/ document_marker
            \/ s[1] \in {"#", "'", "\""}
            \/ s[1] \in {":", "-"} /\ followed_by_whitespace(1)
            \/ \E i \in 2..n : s[i] = ":" /\ followed_by_whitespace(i)
            \/ \E i \in 2..n : s[i] = "#" /\ preceded_by_whitespace(i)
        line_breaks == \E i \in 1..n : s[i] = "\n"
        leading == s[1] \in YamlWhite
        trailing == s[n] \in YamlWhite
        break_space == \E i \in 1..(n - 1) : s[i] = "\n" /\ s[i + 1] = " "
        space_break == \E i \in 1..(n - 1) : s[i] = " " /\ s[i + 1] = "\n"
    IN [empty |-> FALSE, multiline |-> line_breaks,
        allow_block_plain |-> ~(leading \/ trailing \/ break_space \/ space_break
                                \/ line_breaks \/ block_indicators),
        allow_single_quoted |-> ~(break_space \/ space_break)]

\* resolver: a plain scalar of these characters is read back as a string,
\* except the empty one (null)
resolves_to_str(s) == s # <<>>

\* an emitter that writes every scalar as it is
choose_plain_style(s) == "plain"

\* emitter.choose_scalar_style for a mapping value in block context
choose_scalar_style(s) ==
    LET analysis == analyze_scalar(s) IN
    IF resolves_to_str(s) /\ analysis.allow_block_plain THEN "plain"
    ELSE IF analysis.allow_single_quoted THEN "'"
    ELSE "\""

\* emitter.write_single_quoted: quotes doubled, a run of k breaks written as
\* k + 1 breaks
write_single_quoted(s) ==
    <<"'">> \o
    Flatten([i \in 1..Len(s) |->
        IF s[i] = "'" THEN <<"'", "'">>
        ELSE IF s[i] = "\n" /\ (i = 1 \/ s[i - 1] # "\n") THEN <<"\n", "\n">>
        ELSE <<s[i]>>])
    \o <<"'">>

\* emitter.write_double_quoted: quote, backslash and break escaped
write_double_quoted(s) ==
    <<"\"">> \o
    Flatten([i \in 1..Len(s) |->
        IF s[i] = "\"" THEN <<"\\", "\"">>
        ELSE IF s[i] = "\\" THEN <<"\\", "\\">>
        ELSE IF s[i] = "\n" THEN <<"\\", "n">>
        ELSE <<s[i]>>])
    \o <<"\"">>

\* emitter.process_scalar: the characters written for a scalar
write_scalar(s) ==
    LET style == choose_scalar_style(s) IN
    IF style = "plain" THEN s
    ELSE IF style = "'" THEN write_single_quoted(s)
    ELSE write_double_quoted(s)

ScanError(problem) == [ok |-> FALSE, value |-> <<>>, problem |-> problem]
Scanned(v) == [ok |-> TRUE, value |-> v, problem |-> ""]

\* a run of m breaks inside a quoted scalar reads as a space (m = 1) or as
\* m - 1 breaks
BreakRun(w, i) ==
    LET RECURSIVE R(_)
        R(j) == IF j <= Len(w) /\ w[j] = "\n" THEN 1 + R(j + 1) ELSE 0
    IN R(i)

FoldedBreaks(m) == IF m = 1 THEN <<" ">> ELSE [k \in 1..(m - 1) |-> "\n"]

\* scanner.scan_flow_scalar, single-quoted; w[1] is the opening quote
scan_single_quoted(w) ==
    LET RECURSIVE S(_, _)
        S(i, acc) ==
            IF i > Len(w) THEN ScanError("found unexpected end of stream")
            ELSE IF w[i] = "'"
            THEN IF i < Len(w) /\ w[i + 1] = "'" THEN S(i + 2, Append(acc, "'"))
                 ELSE IF i = Len(w) THEN Scanned(acc)
                 ELSE ScanError("expected <block end>")
            ELSE IF w[i] = "\n"
            THEN S(i + BreakRun(w, i), acc \o FoldedBreaks(BreakRun(w, i)))
            ELSE S(i + 1, Append(acc, w[i]))
    IN S(2, <<>>)

\* scanner.scan_flow_scalar, double-quoted
scan_double_quoted(w) ==
    LET RECURSIVE S(_, _)
        S(i, acc) ==
            IF i > Len(w) THEN ScanError("found unexpected end of stream")
            ELSE IF w[i] = "\""
            THEN IF i = Len(w) THEN Scanned(acc) ELSE ScanError("expected <block end>")
            ELSE IF w[i] = "\\"
            THEN IF i = Len(w) THEN ScanError("found unexpected end of stream")
                 ELSE IF w[i + 1] = "n" THEN S(i + 2, Append(acc, "\n"))
                 ELSE IF w[i + 1] \in {"\"", "\\"} THEN S(i + 2, Append(acc, w[i + 1]))
                 ELSE ScanError("found unknown escape character")
            ELSE IF w[i] = "\n"
            THEN S(i + BreakRun(w, i), acc \o FoldedBreaks(BreakRun(w, i)))
            ELSE S(i + 1, Append(acc, w[i]))
    IN S(2, <<>>)

DropSpaces(w) ==
    LET RECURSIVE D(_)
        D(i) == IF i <= Len(w) /\ w[i] = " " THEN D(i + 1) ELSE SubSeq(w, i, Len(w))
    IN D(1)

DropWhite(w) ==
    LET RECURSIVE D(_)
        D(i) == IF i <= Len(w) /\ w[i] \in YamlWhite THEN D(i + 1) ELSE SubSeq(w, i, Len(w))
    IN D(1)

\* what follows a break after the value stands at column 0, where the next
\* entry of the mapping is expected: nothing, a comment or a sequence entry
\* pass, a scalar without ':' does not
NextLineOk(w) ==
    LET rest == DropWhite(w) IN
    \/ rest = <<>>
    \/ rest[1] = "#"
    \/ rest[1] = "-" /\ (Len(rest) = 1 \/ rest[2] \in YamlWhite)

\* scanner.scan_plain for a mapping value: a ':' before whitespace starts a
\* mapping where none may start, a '#' after whitespace starts a comment, and
\* a break ends the scalar
scan_plain(w) ==
    LET RECURSIVE S(_, _)
        S(i, acc) ==
            IF i > Len(w) THEN Scanned(acc)
            ELSE IF w[i] = ":" /\ (i = Len(w) \/ w[i + 1] \in YamlWhite)
            THEN ScanError("mapping values are not allowed here")
            ELSE IF w[i] = "#" /\ i > 1 /\ w[i - 1] \in YamlWhite THEN Scanned(acc)
            ELSE IF w[i] = "\n"
            THEN IF NextLineOk(SubSeq(w, i, Len(w))) THEN Scanned(acc)
                 ELSE ScanError("could not find expected ':'")
            ELSE S(i + 1, Append(acc, w[i]))
    IN S(1, <<>>)

\* scanner.fetch_more_tokens at the value of a block mapping entry, w being
\* what was written after "key: "
scan_value(w) ==
    LET rest == DropSpaces(w)
        followed_by_whitespace == Len(rest) = 1 \/ rest[2] \in YamlWhite
    IN
    IF rest = <<>> THEN Scanned(<<>>)
    ELSE IF rest[1] = "\n"
    THEN IF NextLineOk(rest) THEN Scanned(<<>>) ELSE ScanError("could not find expected ':'")
    ELSE IF rest[1] = "'" THEN scan_single_quoted(rest)
    ELSE IF rest[1] = "\"" THEN scan_double_quoted(rest)
    ELSE IF rest[1] = "#" THEN Scanned(<<>>)
    ELSE IF rest[1] = "-" /\ followed_by_whitespace
    THEN ScanError("sequence entries are not allowed here")
    ELSE IF rest[1] = ":" /\ followed_by_whitespace
    THEN ScanError("mapping values are not allowed here")
    ELSE scan_plain(rest)

\* yaml.dump of a template: the scalars written, in the order of the keys
yaml_dump(template) == [i \in 1..Len(template) |-> write_scalar(template[i])]

\* yaml.safe_load: the values read back, or YAMLError
yaml_safe_load(yaml_str) ==
    LET read == [i \in 1..Len(yaml_str) |-> scan_value(yaml_str[i])] IN
    IF \A i \in 1..Len(yaml_str) : read[i].ok
    THEN Return([i \in 1..Len(yaml_str) |-> read[i].value])
    ELSE Raise("YAMLError", "")

\* lines 25-41
validate_yaml(yaml_str) ==
    IF yaml_safe_load(yaml_str).raised
    THEN Raise("ValidationError", "Invalid YAML syntax")
    ELSE Return(TRUE)

\* the scalars of each kind's template: metadata.name, metadata.namespace,
\* the entrypoint and a script source (a comment line, a line with quotes and
\* ': ', an indented line, a backslash), in short
template_of(kind, namespace) ==
    LET name == IF kind = "application" THEN <<"a", "-", "a">>
                ELSE IF kind = "applicationset" THEN <<"a", "-", "a", "a">>
                ELSE <<"a", "-", "a", "a", "a">>
        source == <<"\n", "#", " ", "a", "\n", "a", ":", " ", "\"", "a", "\\", "\"",
                    "\n", " ", " ", "a", "'", "\n">>
    IN <<name, namespace, name, source>>

\* lines 43-325, 327-577, 579-786: build, dump, validate, return the text
generate_template(kind, namespace) ==
    LET yaml_str == yaml_dump(template_of(kind, namespace))
        checked == validate_yaml(yaml_str)
    IN IF checked.raised THEN checked ELSE Return(yaml_str)

Namespaces == SeqsUpTo(NsChars, MaxNsLen)

InitGenerate ==
    /\ TcIdle
    /\ CmdIdle
    /\ FrameIdle
    /\ TimeoutIdle
    /\ ClassIdle
    /\ ValIdle /\ DelIdle /\ LogIdle /\ FetchIdle /\ PollIdle /\ SubmitIdle /\ ApplyIdle
    /\ StreamIdle
    /\ genKind \in TemplateKinds
    /\ genNamespace \in Namespaces
    /\ genPc = "generate"
    /\ genResult = NoResult
    /\ genValid = NoResult

\* cli.py lines 238-246: the template of the kind asked for is generated
Generate ==
    /\ genPc = "generate"
    /\ genResult' = generate_template(genKind, genNamespace)
    /\ genPc' = IF genResult'.raised THEN "failed" ELSE "generated"
    /\ UNCHANGED <<genKind, genNamespace, genValid>>
    /\ UNCHANGED notGen

\* template_generator.py line 804: the generated text is validated again
\* when it is applied
ValidateGenerated ==
    /\ genPc = "generated"
    /\ genValid' = validate_yaml(genResult.val)
    /\ genPc' = "validated"
    /\ UNCHANGED <<genKind, genNamespace, genResult>>
    /\ UNCHANGED notGen

NextGenerate ==
    \/ Generate
    \/ ValidateGenerated

SpecGenerate == InitGenerate /\ [][NextGenerate]_vars

----------------------------------------------------------------------------
(* C12 *)

\* C12: for each template kind and every namespace, generate succeeds and
\* the generated document then validates: it always parses.
C12_GenerateThenValidate ==
    /\ genPc # "failed"
    /\ genPc = "validated" => ~genValid.raised

\* the namespace is read back as it was given
NamespaceRoundTrip ==
    genPc = "validated" =>
        yaml_safe_load(genResult.val).val[2] = genNamespace

\* a namespace that is not plain text was generated and validated
C12_Witness ==
    /\ genPc = "validated"
    /\ genKind = "infrastructure"
    /\ genNamespace = <<"a", ":", " ">>
    /\ ~genValid.raised

----------------------------------------------------------------------------
(* C13 *)

\* the modes that remove the children with the parent
CascadingModes == {"Background", "Foreground"}

\* C13: every delete request carries the propagation mode the retain policy
\* asks for: with --retain-logs (retainChildren = true) the orphan mode,
\* without it a cascading mode; never the opposite one.
C13_PropagationFollowsRetain ==
    \A j \in 1..Len(delRequests) :
        /\ delArgs.retain_logs => delRequests[j].policy = "Orphan"
        /\ ~delArgs.retain_logs => delRequests[j].policy \in CascadingModes

\* the command deleted two workflows with --retain-logs
C13_Witness ==
    /\ delOp = "cli"
    /\ delArgs.retain_logs
    /\ delPc = "done"
    /\ Cardinality(RequestsWith("ok")) >= 2
    /\ \A j \in 1..Len(delRequests) : delRequests[j].policy = "Orphan"

----------------------------------------------------------------------------
(* C14 *)

\* Without a step filter every unit read is a Pod node.
UnfilteredReadsOnlyPods ==
    logStep = NoStep =>
        \A j \in 1..Len(logReads) : logNodes[logReads[j].pod].type = "Pod"

\* C14: the units whose logs are read are pod-like, with or without a step
\* filter: every log read is for a node of type Pod.
C14_OnlyPodUnitsRead ==
    \A j \in 1..Len(logReads) : logNodes[logReads[j].pod].type = "Pod"

----------------------------------------------------------------------------
(* C15 *)

\* The snapshot holds one node per entry of the node map, in the map's order.
OneNodePerEntry ==
    (fetchPc = "done" /\ fetchResp = Ok /\ ~fetchResult.raised) =>
        DOMAIN fetchResult.val.nodes = DOMAIN fetchWf.nodes

\* C15: fetch preserves node identity by id: the snapshot has one node per
\* entry of the node map and two entries with distinct ids give two records
\* that differ, the same name and display name notwithstanding.
C15_NodeIdentityById ==
    (fetchPc = "done" /\ fetchResp = Ok /\ ~fetchResult.raised) =>
        /\ DOMAIN fetchResult.val.nodes = DOMAIN fetchWf.nodes
        /\ \A i, j \in DOMAIN fetchWf.nodes :
              i # j => fetchResult.val.nodes[i] # fetchResult.val.nodes[j]

----------------------------------------------------------------------------
(* workflow_client.py: stream_workflow_logs, and its caller in cli.py *)

StreamUnits == 1..MaxUnits

\* lines 494-500: the log read opened for a unit: it follows the log and
\* names no starting point (no since_seconds, since_time or tail_lines)
pod_log_request(unit) == [name |-> unit, follow |-> TRUE, since |-> 0]

\* the first line the remote serves for a request: the line after `since`,
\* the beginning of the log when the request names none
first_line_served(request) == request.since + 1

StreamActivePcs == {"start", "unit", "open", "lines"}

InitStream ==
    /\ TcIdle
    /\ CmdIdle
    /\ FrameIdle
    /\ TimeoutIdle
    /\ ClassIdle
    /\ ValIdle /\ DelIdle /\ LogIdle /\ FetchIdle /\ PollIdle /\ SubmitIdle /\ ApplyIdle /\ GenIdle
    /\ podLines \in [StreamUnits -> 0..1]
    /\ podClosed = [u \in StreamUnits |-> FALSE]
    /\ streamCall = 1
    /\ streamPc = "start"
    /\ streamTargets = <<>>
    /\ streamIdx = 1
    /\ streamPos = 1
    /\ streamBuf = 0
    /\ yielded = <<>>
    /\ subscriptions = <<>>
    /\ cancelledCalls = {}

streamLocal == <<streamTargets, streamIdx, streamPos, streamBuf>>

\* lines 461-486: the workflow is read and the units resolved, or the read
\* fails and the generator raises
StreamResolve ==
    /\ streamPc = "start"
    /\ \/ /\ \E n \in 1..MaxUnits : streamTargets' = [i \in 1..n |-> i]
          /\ streamPc' = "unit"
       \/ /\ streamTargets' = <<>>
          /\ streamPc' = "raised"
    /\ streamIdx' = 1
    /\ UNCHANGED <<podLines, podClosed, streamCall, streamPos, streamBuf, yielded,
                   subscriptions, cancelledCalls>>
    /\ UNCHANGED notStream

\* lines 489-493: the next unit's header line is yielded
StreamHeader ==
    /\ streamPc = "unit"
    /\ streamIdx <= Len(streamTargets)
    /\ yielded' = Append(yielded, [call |-> streamCall, unit |-> streamTargets[streamIdx],
                                    line |-> 0])
    /\ streamPc' = "open"
    /\ UNCHANGED <<podLines, podClosed, streamCall, streamLocal, subscriptions, cancelledCalls>>
    /\ UNCHANGED notStream

\* lines 495-501: the log read of the unit is opened; or it fails with an
\* ApiException and a placeholder line takes the unit's place (508-512); or
\* it fails with another exception (a urllib3 error: the connection is
\* refused or times out), which neither handler catches (508, 513) and
\* which ends the generator
StreamOpen ==
    /\ streamPc = "open"
    /\ LET unit == streamTargets[streamIdx]
           request == pod_log_request(unit)
       IN \/ /\ subscriptions' = Append(subscriptions,
                    [call |-> streamCall, request |-> request, opened |-> "ok"])
             /\ streamPos' = first_line_served(request)
             /\ streamBuf' = 0
             /\ streamPc' = "lines"
             /\ UNCHANGED <<yielded, streamIdx>>
          \/ /\ subscriptions' = Append(subscriptions,
                    [call |-> streamCall, request |-> request, opened |-> "ApiException"])
             /\ yielded' = Append(yielded, [call |-> streamCall, unit |-> unit, line |-> -1])
             /\ streamIdx' = streamIdx + 1
             /\ streamPc' = "unit"
             /\ UNCHANGED <<streamPos, streamBuf>>
          \/ /\ subscriptions' = Append(subscriptions,
                    [call |-> streamCall, request |-> request, opened |-> "Exception"])
             /\ streamPc' = "raised"
             /\ UNCHANGED <<yielded, streamIdx, streamPos, streamBuf>>
    /\ UNCHANGED <<podLines, podClosed, streamCall, streamTargets, cancelledCalls>>
    /\ UNCHANGED notStream

\* the transport hands over the next line the pod has written
StreamReceive ==
    /\ streamPc = "lines"
    /\ streamPos + streamBuf <= podLines[streamTargets[streamIdx]]
    /\ streamBuf' = streamBuf + 1
    /\ UNCHANGED <<podLines, podClosed, streamCall, streamPc, streamTargets, streamIdx,
                   streamPos, yielded, subscriptions, cancelledCalls>>
    /\ UNCHANGED notStream

\* lines 503-504: a received line is yielded
StreamYield ==
    /\ streamPc = "lines"
    /\ streamBuf > 0
    /\ yielded' = Append(yielded, [call |-> streamCall, unit |-> streamTargets[streamIdx],
                                    line |-> streamPos])
    /\ streamPos' = streamPos + 1
    /\ streamBuf' = streamBuf - 1
    /\ UNCHANGED <<podLines, podClosed, streamCall, streamPc, streamTargets, streamIdx,
                   subscriptions, cancelledCalls>>
    /\ UNCHANGED notStream

\* line 503: the unit's transport has closed and every line was yielded
StreamUnitEnds ==
    /\ streamPc = "lines"
    /\ podClosed[streamTargets[streamIdx]]
    /\ streamBuf = 0
    /\ streamPos > podLines[streamTargets[streamIdx]]
    /\ streamIdx' = streamIdx + 1
    /\ streamPc' = "unit"
    /\ UNCHANGED <<podLines, podClosed, streamCall, streamTargets, streamPos, streamBuf,
                   yielded, subscriptions, cancelledCalls>>
    /\ UNCHANGED notStream

\* line 488: no unit is left
StreamEnds ==
    /\ streamPc = "unit"
    /\ streamIdx > Len(streamTargets)
    /\ streamPc' = "ended"
    /\ UNCHANGED <<podLines, podClosed, streamCall, streamLocal, yielded, subscriptions,
                   cancelledCalls>>
    /\ UNCHANGED notStream

\* cli.py 1258-1259: Ctrl+C; the loop over the generator is left and the
\* generator, with what it had received, is dropped
StreamCancel ==
    /\ streamPc \in StreamActivePcs
    /\ streamPc' = "cancelled"
    /\ cancelledCalls' = cancelledCalls \cup {streamCall}
    /\ streamBuf' = 0
    /\ UNCHANGED <<podLines, podClosed, streamCall, streamTargets, streamIdx, streamPos,
                   yielded, subscriptions>>
    /\ UNCHANGED notStream

\* cli.py 1254: the command is run again: a new generator
StreamAgain ==
    /\ streamPc \in {"ended", "cancelled", "raised"}
    /\ streamCall < MaxStreams
    /\ streamCall' = streamCall + 1
    /\ streamPc' = "start"
    /\ streamTargets' = <<>>
    /\ streamIdx' = 1
    /\ streamPos' = 1
    /\ streamBuf' = 0
    /\ UNCHANGED <<podLines, podClosed, yielded, subscriptions, cancelledCalls>>
    /\ UNCHANGED notStream

\* a pod writes a line
PodWrites ==
    /\ \E u \in StreamUnits :
        /\ ~podClosed[u]
        /\ podLines[u] < MaxLines
        /\ podLines' = [podLines EXCEPT ![u] = @ + 1]
    /\ UNCHANGED <<podClosed, streamCall, streamPc, streamLocal, yielded, subscriptions,
                   cancelledCalls>>
    /\ UNCHANGED notStream

\* a pod ends and its log transport closes
PodCloses ==
    /\ \E u \in StreamUnits :
        /\ ~podClosed[u]
        /\ podClosed' = [podClosed EXCEPT ![u] = TRUE]
    /\ UNCHANGED <<podLines, streamCall, streamPc, streamLocal, yielded, subscriptions,
                   cancelledCalls>>
    /\ UNCHANGED notStream

NextStream ==
    \/ StreamResolve
    \/ StreamHeader
    \/ StreamOpen
    \/ StreamReceive
    \/ StreamYield
    \/ StreamUnitEnds
    \/ StreamEnds
    \/ StreamCancel
    \/ StreamAgain
    \/ PodWrites
    \/ PodCloses

SpecStream == InitStream /\ [][NextStream]_vars

----------------------------------------------------------------------------
(* C16 *)

\* the log lines (not headers or placeholders) a call has yielded
LinesOf(call) ==
    {[unit |-> yielded[i].unit, line |-> yielded[i].line] :
        i \in {j \in 1..Len(yielded) : yielded[j].call = call /\ yielded[j].line > 0}}

\* Each call opens its own subscriptions, and a call yields a unit's lines
\* in the log's order, each once, from its own subscription alone.
StreamOpensFreshSubscription ==
    /\ \A i \in 1..Len(subscriptions) : subscriptions[i].call <= streamCall
    /\ \A c \in 1..streamCall : \A l \in LinesOf(c) :
          \E i \in 1..Len(subscriptions) :
              subscriptions[i].call = c /\ subscriptions[i].request.name = l.unit
    /\ \A i, j \in 1..Len(yielded) :
          (i < j /\ yielded[i].call = yielded[j].call /\ yielded[i].unit = yielded[j].unit
             /\ yielded[i].line > 0 /\ yielded[j].line > 0)
          => yielded[i].line < yielded[j].line

\* C16: after a caller cancelled a stream part-way, a later streamLogs call
\* does not yield again a line the cancelled call had already yielded.
C16_NoReplayAfterCancel ==
    \A c \in cancelledCalls : \A d \in 1..streamCall :
        d > c => LinesOf(c) \cap LinesOf(d) = {}

----------------------------------------------------------------------------
(* C17 *)

\* C17: batch deletion is sequential: the requests issued so far are, in
\* order, those of the first workflows of the resolved list; every request but
\* the last has been answered (with success or failure), and the last is
\* outstanding exactly while the loop waits for it.
C17_DeleteIsSequential ==
    /\ Len(delRequests) <= Len(workflows_to_delete)
    /\ \A j \in 1..Len(delRequests) :
          /\ delRequests[j].name = workflows_to_delete[j]
          /\ j < Len(delRequests) => delRequests[j].outcome # "pending"
    /\ Cardinality(RequestsWith("pending")) = (IF delPc = "inflight" THEN 1 ELSE 0)
    /\ Cardinality(RequestsWith("pending")) <= 1

\* the third request is outstanding after a failed and a successful one
C17_Witness ==
    /\ delPc = "inflight"
    /\ Len(delRequests) = 3
    /\ delRequests[1].outcome = "failed"
    /\ delRequests[2].outcome = "ok"
    /\ delRequests[3].outcome = "pending"

----------------------------------------------------------------------------
(* exceptions.py: handle_kubernetes_api_exception, called on its own *)

\* the statuses an ApiException may carry
ClassifyStatuses == ApiStatuses \cup {200, 410, 429, 502, 504}
\* an exception that is not an ApiException
ValueError == [cls |-> "ValueError", hasStatus |-> FALSE, status |-> 0]
ClassifyInputs ==
    {ApiException(st) : st \in ClassifyStatuses}
        \cup {ApiExceptionNoStatus, TransportError, ValueError}
\* the resource_type arguments of the call sites; "" is the default, None
ResourceTypes == {"", "Workflow", "WorkflowTemplate", "namespace"}

InitClassify ==
    /\ TcIdle
    /\ CmdIdle
    /\ FrameIdle
    /\ TimeoutIdle
    /\ ValIdle /\ DelIdle /\ LogIdle /\ FetchIdle /\ PollIdle /\ SubmitIdle /\ ApplyIdle
    /\ GenIdle /\ StreamIdle
    /\ classE \in ClassifyInputs
    /\ classResourceType \in ResourceTypes
    /\ classPc = "ready"
    /\ classResult = NoResult

Classify ==
    /\ classPc = "ready"
    /\ classResult' = handle_kubernetes_api_exception(classE, classResourceType)
    /\ classPc' = "done"
    /\ UNCHANGED <<classE, classResourceType>>
    /\ UNCHANGED notClass

NextClassify == Classify

SpecClassify == InitClassify /\ [][NextClassify]_vars

----------------------------------------------------------------------------
(* C18 *)

\* the kind of failure an error object stands for: KubernetesAPIError is the
\* generic class, told apart by its message only
ErrorKind(error) ==
    CASE error.cls = "ResourceNotFoundError" -> "ResourceNotFound"
      [] error.cls = "PermissionError" -> "PermissionDenied"
      [] error.cls = "ValidationError" -> "InvalidSpec"
      [] error.cls = "KubernetesAPIError" /\ error.message = "Resource conflict" -> "Conflict"
      [] error.cls = "KubernetesAPIError" /\ error.message = "Kubernetes API server error"
            -> "UnknownServer"
      [] OTHER -> "Unknown"

\* what the status indicator of `e` asks for; "any" where nothing is asked
KindForStatus(e) ==
    IF ~e.hasStatus THEN "Unknown"
    ELSE IF e.status = 404 THEN "ResourceNotFound"
    ELSE IF e.status = 403 THEN "PermissionDenied"
    ELSE IF e.status = 409 THEN "Conflict"
    ELSE IF e.status = 422 THEN "InvalidSpec"
    ELSE IF e.status >= 500 THEN "UnknownServer"
    ELSE "any"

Classified ==
    /\ ~classResult.raised
    /\ KindForStatus(classE) # "any" => ErrorKind(classResult.val) = KindForStatus(classE)

\* Whenever the status indicator is a number and a resource type is given,
\* the classifier returns the error of the kind the status asks for; so it
\* does for an exception that is not an ApiException.
ClassifiedWhenStatusSupplied ==
    (/\ classPc = "done"
     /\ classE.cls = "ApiException" => classE.hasStatus
     /\ StatusIs(classE, 404) => classResourceType # "")
        => Classified

\* C18: for every input the classifier returns an error object and never
\* fails itself: not-found gives ResourceNotFound, forbidden PermissionDenied,
\* conflict Conflict, unprocessable InvalidSpec, a server-class status Unknown
\* with the server hint, and a failure without status indicator Unknown.
C18_ClassifierIsTotal ==
    classPc = "done" => Classified

----------------------------------------------------------------------------
(* The time a remote call may take: template_generator.py apply_template,   *)
(* workflow_client.py submit_workflow, get_workflow_status, list_workflows, *)
(* delete_workflow, get_workflow_logs                                       *)

RemoteOps == {"apply", "submit", "fetch", "list", "delete", "log read"}

\* subprocess.run(..., timeout=30), line 815
kubectl_timeout == 30

\* the time limit the call passes with its request, in seconds: kubectl runs
\* under timeout=30; the calls on custom_api and core_api pass no
\* _request_timeout, and the client is built without one
request_timeout(op) ==
    IF op = "apply" THEN [has |-> TRUE, v |-> kubectl_timeout]
    ELSE [has |-> FALSE, v |-> 0]

\* list_workflows, lines 263-267
list_workflows_raise(e) ==
    IF e.cls = "ApiException"
    THEN LET error == handle_kubernetes_api_exception(e, "Workflow") IN
         IF error.raised THEN error
         ELSE Raise("KubernetesAPIError", "Failed to list workflows")
    ELSE IF IsException(e.cls)
    THEN Raise("KubernetesAPIError", "Unexpected error listing workflows")
    ELSE Raise(e.cls, "")

\* what the call raises when its wait is cut short: kubectl is killed at the
\* time limit (TimeoutExpired); the API client's transport gives up on its
\* own (a urllib3 error, no ApiException)
call_timed_out(op) ==
    CASE op = "apply" -> apply_template_outcome("TimeoutExpired")
      [] op = "submit" -> submit_workflow(TransportError, [has |-> FALSE, v |-> 0])
      [] op = "fetch" -> get_workflow_status_raise(TransportError)
      [] op = "list" -> list_workflows_raise(TransportError)
      [] op = "delete" -> delete_workflow(TransportError)
      [] op = "log read" -> get_workflow_logs_raise(TransportError)

\* what the call returns when the remote answers with success (the value
\* itself is of no account here)
call_answered(op) ==
    CASE op = "apply" -> apply_template_outcome("ok")
      [] op = "delete" -> delete_workflow(Ok)
      [] OTHER -> Return(TRUE)

InitTimeout ==
    /\ TcIdle
    /\ CmdIdle
    /\ FrameIdle
    /\ ValIdle /\ DelIdle /\ LogIdle /\ FetchIdle /\ PollIdle /\ SubmitIdle /\ ApplyIdle
    /\ GenIdle /\ StreamIdle /\ ClassIdle
    /\ toPc = "start"
    /\ toRequest = NoRequest
    /\ toElapsed = 0
    /\ toEnded = "none"
    /\ toResult = NoResult

\* the call sends its request and blocks
CallIssue ==
    /\ toPc = "start"
    /\ \E op \in RemoteOps :
          toRequest' = [op |-> op, timeout |-> request_timeout(op)]
    /\ toPc' = "waiting"
    /\ UNCHANGED <<toElapsed, toEnded, toResult>>
    /\ UNCHANGED notTimeout

\* a second passes without an answer; past the time limit of the request the
\* call no longer waits
SecondPasses ==
    /\ toPc = "waiting"
    /\ toElapsed < MaxWait
    /\ toRequest.timeout.has => toElapsed < toRequest.timeout.v
    /\ toElapsed' = toElapsed + 1
    /\ UNCHANGED <<toPc, toRequest, toEnded, toResult>>
    /\ UNCHANGED notTimeout

\* the remote answers
RemoteAnswers ==
    /\ toPc = "waiting"
    /\ toResult' = call_answered(toRequest.op)
    /\ toEnded' = "answered"
    /\ toPc' = "done"
    /\ UNCHANGED <<toRequest, toElapsed>>
    /\ UNCHANGED notTimeout

\* the time limit of the request is reached
TimeLimitReached ==
    /\ toPc = "waiting"
    /\ toRequest.timeout.has
    /\ toElapsed = toRequest.timeout.v
    /\ toResult' = call_timed_out(toRequest.op)
    /\ toEnded' = "timeout"
    /\ toPc' = "done"
    /\ UNCHANGED <<toRequest, toElapsed>>
    /\ UNCHANGED notTimeout

\* the transport below a call without time limit gives up waiting, at a
\* moment the call does not choose
TransportTimesOut ==
    /\ toPc = "waiting"
    /\ ~toRequest.timeout.has
    /\ toResult' = call_timed_out(toRequest.op)
    /\ toEnded' = "timeout"
    /\ toPc' = "done"
    /\ UNCHANGED <<toRequest, toElapsed>>
    /\ UNCHANGED notTimeout

NextTimeout ==
    \/ CallIssue
    \/ SecondPasses
    \/ RemoteAnswers
    \/ TimeLimitReached
    \/ TransportTimesOut

SpecTimeout == InitTimeout /\ [][NextTimeout]_vars

----------------------------------------------------------------------------
(* C19 *)

\* A call that ends on a timeout ends with a failure, never with a value; and
\* apply never waits longer than its time limit.
TimeoutIsAFailure ==
    /\ toEnded = "timeout" => toResult.raised
    /\ toRequest.op = "apply" => toElapsed <= kubectl_timeout

\* C19: every remote call (apply, submit, fetch, list, delete, log read)
\* carries a bounded timeout with its request, and a call that times out ends
\* with the failure named Timeout.
C19_CallsCarryTimeout ==
    /\ toPc # "start" => toRequest.timeout.has
    /\ toEnded = "timeout" => toResult.raised /\ toResult.cls = "TimeoutError"

----------------------------------------------------------------------------
(* The requests the operations send, and what they do to the remote state:  *)
(* template_generator.py apply_template; workflow_client.py submit_workflow,*)
(* get_workflow_status, list_workflows, get_workflow_logs,                  *)
(* stream_workflow_logs, delete_workflow, delete_workflows_by_labels;       *)
(* cli.py workflows status --watch                                          *)

FrNames == 1..MaxInstances

\* an instance as the remote holds it: its phase and the phase of its pod
\* node ("" before the controller has written a status, "none" before the
\* node exists), or no instance under the name
Absent == [exists |-> FALSE, phase |-> "", node |-> "none"]
Instance(p, n) == [exists |-> TRUE, phase |-> p, node |-> n]
InstanceStates ==
    {Absent, Instance("", "none"), Instance("Pending", "none"),
     Instance("Running", "Pending"), Instance("Running", "Running"),
     Instance("Running", "Succeeded"), Instance("Running", "Failed"),
     Instance("Succeeded", "Succeeded"), Instance("Failed", "Failed")}

\* the controller's transitions of an instance
ControllerSteps ==
    {<<Instance("", "none"), Instance("Pending", "none")>>,
     <<Instance("Pending", "none"), Instance("Running", "Pending")>>,
     <<Instance("Running", "Pending"), Instance("Running", "Running")>>,
     <<Instance("Running", "Running"), Instance("Running", "Succeeded")>>,
     <<Instance("Running", "Running"), Instance("Running", "Failed")>>,
     <<Instance("Running", "Succeeded"), Instance("Succeeded", "Succeeded")>>,
     <<Instance("Running", "Failed"), Instance("Failed", "Failed")>>}

Request(verb, name, content) == [verb |-> verb, name |-> name, content |-> content]

\* a request that writes the phase of an instance, which the API of the
\* remote accepts
get_workflow_status_requests_forcing(name) == <<Request("PATCH", name, 0)>>

\* get_workflow_status, lines 160-166: one read of the instance
get_workflow_status_requests(name) == <<Request("GET", name, 0)>>

CoreOps ==
    {"apply", "submit", "fetch", "poll", "list", "fetchLogs", "streamLogs",
     "deleteOne", "deleteMany"}
ReadOps == {"fetch", "poll", "list", "fetchLogs", "streamLogs"}

\* the first request of each operation
requests_of(op, name, content) ==
    CASE op = "apply" -> <<Request("APPLY", 0, content)>>
      [] op = "submit" -> <<Request("POST", 0, 0)>>
      [] op \in {"fetch", "poll"} -> get_workflow_status_requests(name)
      [] op \in {"list", "deleteMany"} -> <<Request("LIST", 0, 0)>>
      [] op \in {"fetchLogs", "streamLogs"} -> <<Request("GET", name, 0)>>
      [] op = "deleteOne" -> <<Request("DELETE", name, 0)>>

FreeNames(insts) == {n \in FrNames : ~insts[n].exists}

\* the remote state after the API has served the request: apply upserts the
\* template, POST creates an instance under a generated name (refused when
\* the store is full), DELETE removes the instance, PATCH writes its phase;
\* GET, LIST and LOG read
remote_serve(request, template, insts) ==
    CASE request.verb = "APPLY" -> [template |-> request.content, instances |-> insts]
      [] request.verb = "POST" ->
            IF FreeNames(insts) = {} THEN [template |-> template, instances |-> insts]
            ELSE LET n == CHOOSE x \in FreeNames(insts) :
                              \A y \in FreeNames(insts) : x <= y
                 IN [template |-> template,
                     instances |-> [insts EXCEPT ![n] = Instance("", "none")]]
      [] request.verb = "DELETE" ->
            [template |-> template, instances |-> [insts EXCEPT ![request.name] = Absent]]
      [] request.verb = "PATCH" ->
            IF insts[request.name].exists
            THEN [template |-> template,
                  instances |-> [insts EXCEPT ![request.name].phase = "Failed"]]
            ELSE [template |-> template, instances |-> insts]
      [] OTHER -> [template |-> template, instances |-> insts]

FrTerminal == {"Succeeded", "Failed", "Error"}

\* the requests the operation sends on the answer to `request`: the watch
\* reads again until the phase is terminal (cli.py 1150-1201), the log
\* operations read the log of the pod node after the instance
\* (workflow_client.py 387-426 and 463-501), the batch deletion deletes what
\* the list returned (309-335)
follow_ups(op, request, insts) ==
    IF op = "poll" /\ request.verb = "GET"
    THEN IF insts[request.name].exists
            /\ insts[request.name].phase \notin FrTerminal
         THEN get_workflow_status_requests(request.name)
         ELSE <<>>
    ELSE IF op = "fetchLogs" /\ request.verb = "GET"
    THEN IF insts[request.name].exists /\ insts[request.name].node # "none"
         THEN <<Request("LOG", request.name, 0)>>
         ELSE <<>>
    ELSE IF op = "streamLogs" /\ request.verb = "GET"
    THEN IF insts[request.name].exists
            /\ insts[request.name].node \in {"Running", "Pending"}
         THEN <<Request("LOG", request.name, 0)>>
         ELSE <<>>
    ELSE IF op = "deleteMany" /\ request.verb = "LIST"
    THEN LET names == SetToSeq({n \in FrNames : insts[n].exists})
         IN [j \in 1..Len(names) |-> Request("DELETE", names[j], 0)]
    ELSE <<>>

\* the calls a caller can make: apply takes a document, the operations on
\* one instance take its name
CoreCalls ==
    [op : {"apply"}, name : {0}, content : 1..MaxContents]
        \cup [op : {"submit", "list", "deleteMany"}, name : {0}, content : {0}]
        \cup [op : CoreOps \ {"apply", "submit", "list", "deleteMany"},
              name : FrNames, content : {0}]

InitFrame ==
    /\ TcIdle
    /\ CmdIdle
    /\ ValIdle /\ DelIdle /\ LogIdle /\ FetchIdle /\ PollIdle /\ SubmitIdle /\ ApplyIdle
    /\ GenIdle /\ StreamIdle /\ ClassIdle /\ TimeoutIdle
    /\ frTemplate \in 0..1
    /\ frInstances \in [FrNames -> InstanceStates]
    /\ frOp = "none"
    /\ frQueue = <<>>
    /\ frLast = NoLast

\* the caller starts an operation
FrameBegin ==
    /\ frQueue = <<>>
    /\ \E call \in CoreCalls :
          /\ (call.op = "submit") => FreeNames(frInstances) # {}
          /\ frOp' = call.op
          /\ frQueue' = requests_of(call.op, call.name, call.content)
    /\ frLast' = [actor |-> "core", op |-> frOp', verb |-> "none"]
    /\ UNCHANGED <<frTemplate, frInstances>>
    /\ UNCHANGED notFrame

\* the operation sends its next request and the remote serves it
FrameRequest ==
    /\ frQueue # <<>>
    /\ LET request == Head(frQueue)
           served == remote_serve(request, frTemplate, frInstances)
       IN /\ frTemplate' = served.template
          /\ frInstances' = served.instances
          /\ frQueue' = Tail(frQueue) \o follow_ups(frOp, request, frInstances)
          /\ frLast' = [actor |-> "core", op |-> frOp, verb |-> request.verb]
    /\ UNCHANGED frOp
    /\ UNCHANGED notFrame

\* the workflow controller moves an instance on
FrameRemoteStep ==
    /\ \E n \in FrNames, step \in ControllerSteps :
          /\ frInstances[n] = step[1]
          /\ frInstances' = [frInstances EXCEPT ![n] = step[2]]
    /\ frLast' = [actor |-> "remote", op |-> "none", verb |-> "none"]
    /\ UNCHANGED <<frTemplate, frOp, frQueue>>
    /\ UNCHANGED notFrame

NextFrame ==
    \/ FrameBegin
    \/ FrameRequest
    \/ FrameRemoteStep

SpecFrame == InitFrame /\ [][NextFrame]_vars

----------------------------------------------------------------------------
(* C20 *)

\* the phase of every instance, and of every node, that exists before and
\* after the step is the same
PhasesKept ==
    \A n \in FrNames :
        frInstances[n].exists /\ frInstances'[n].exists =>
            /\ frInstances'[n].phase = frInstances[n].phase
            /\ frInstances[n].node # "none" => frInstances'[n].node = frInstances[n].node

RemoteKept == frTemplate' = frTemplate /\ frInstances' = frInstances

\* C20: a step of the core (of apply, submit, fetch, poll, list, fetchLogs,
\* streamLogs, deleteOne or deleteMany) never changes the phase of an
\* existing instance or node, and a step of a read-side operation (fetch,
\* poll, list, fetchLogs, streamLogs) leaves templates, insts and nodes
\* as they were: a phase changes by a step of the remote only.
C20_PhasesChangeByRemoteStepOnly ==
    [][frLast'.actor = "core" =>
          /\ PhasesKept
          /\ frLast'.op \in ReadOps => RemoteKept]_vars

\* the batch deletion has just deleted an instance while another one, in
\* phase Running with a running node, stays
C20_Witness ==
    /\ frLast = [actor |-> "core", op |-> "deleteMany", verb |-> "DELETE"]
    /\ \E n \in FrNames : frInstances[n] = Instance("Running", "Running")
    /\ \E n \in FrNames : ~frInstances[n].exists

----------------------------------------------------------------------------
(* template_generator.py: the workflow templates the generators build      *)

\* spec.entrypoint, lines 58, 342, 594
entrypoint(kind) ==
    IF kind = "application" THEN "create-application"
    ELSE IF kind = "applicationset" THEN "create-applicationset"
    ELSE "provision-infrastructure"

Step(name, template, when) == [name |-> name, template |-> template, when |-> when]

\* an entrypoint whose first two steps run side by side
steps_in_parallel(kind) ==
    IF kind = "application"
    THEN <<<<Step("validate-inputs", "validate-inputs", {}),
             Step("create-namespace", "create-namespace", {})>>,
           <<Step("generate-manifest", "generate-manifest", {})>>,
           <<Step("apply-application", "apply-application", {})>>,
           <<Step("verify-creation", "verify-creation", {})>>>>
    ELSE IF kind = "applicationset"
    THEN <<<<Step("validate-inputs", "validate-inputs", {}),
             Step("validate-environments", "validate-environments", {})>>,
           <<Step("generate-manifest", "generate-manifest", {})>>,
           <<Step("apply-applicationset", "apply-applicationset", {})>>>>
    ELSE <<<<Step("create-namespace", "create-namespace", {}),
             Step("create-secrets", "create-secrets", {})>>,
           <<Step("create-configmaps", "create-configmaps", {})>>,
           <<Step("execute-custom-scripts", "execute-custom-scripts", {"custom_scripts"})>>>>

\* the `steps` of the entrypoint template, lines 76-82, 358-363, 606-611: a
\* list of stages, each a list of steps; `when` is the set of workflow
\* parameters the step's condition substitutes
steps(kind) ==
    IF kind = "application"
    THEN <<<<Step("validate-inputs", "validate-inputs", {})>>,
           <<Step("create-namespace", "create-namespace", {})>>,
           <<Step("generate-manifest", "generate-manifest", {})>>,
           <<Step("apply-application", "apply-application", {})>>,
           <<Step("verify-creation", "verify-creation", {})>>>>
    ELSE IF kind = "applicationset"
    THEN <<<<Step("validate-inputs", "validate-inputs", {})>>,
           <<Step("validate-environments", "validate-environments", {})>>,
           <<Step("generate-manifest", "generate-manifest", {})>>,
           <<Step("apply-applicationset", "apply-applicationset", {})>>>>
    ELSE <<<<Step("create-namespace", "create-namespace", {})>>,
           <<Step("create-secrets", "create-secrets", {})>>,
           <<Step("create-configmaps", "create-configmaps", {})>>,
           <<Step("execute-custom-scripts", "execute-custom-scripts", {"custom_scripts"})>>>>

\* retryStrategy: the limit, the retryPolicy ("" when none is given) and the
\* backoff
NoBackoff == [has |-> FALSE, duration |-> "", factor |-> 0, maxDuration |-> ""]
RetryLimit(limit) == [limit |-> limit, retryPolicy |-> "", backoff |-> NoBackoff]
RetryOnError(limit) == [limit |-> limit, retryPolicy |-> "OnError", backoff |-> NoBackoff]
\* lines 287-295 and 561-569
RetryWithBackoff ==
    [limit |-> "3", retryPolicy |-> "OnError",
     backoff |-> [has |-> TRUE, duration |-> "5s", factor |-> 2, maxDuration |-> "1m"]]

\* a test of a script on a workflow parameter: the values it stops on and
\* the exit code it stops with; a script makes its tests in order
Check(param, stops_on, code) == [param |-> param, stops_on |-> stops_on, exit |-> code]

\* a script template: its name, the workflow parameters its source
\* substitutes, the tests the source makes on them, whether the source runs
\* `kubectl apply`, and its retryStrategy
Script(name, substitutes, checks, applies, retry) ==
    [name |-> name, substitutes |-> substitutes, checks |-> checks,
     applies |-> applies, retryStrategy |-> retry]

ManifestParams ==
    {"app_name", "chart_path", "destination_cluster", "destination_namespace", "namespace",
     "repo_url", "sync_policy_automated", "sync_policy_prune", "sync_policy_self_heal",
     "values_file"}
AppsetManifestParams ==
    {"appset_name", "chart_path", "environments", "repo_url", "sync_policy_automated",
     "sync_policy_prune", "sync_policy_self_heal"}

\* the script templates, lines 84-319, 365-571, 613-780
script_templates(kind) ==
    IF kind = "application"
    THEN <<Script("validate-inputs",
                  {"app_name", "namespace", "repo_url", "chart_path", "destination_namespace"},
                  <<Check("app_name", "empty", 1), Check("namespace", "empty", 1),
                   Check("repo_url", "empty", 1), Check("chart_path", "empty", 1),
                   Check("destination_namespace", "empty", 1)>>,
                  FALSE, RetryLimit("2")),
           Script("create-namespace", {"namespace"}, <<>>, TRUE, RetryOnError("2")),
           Script("generate-manifest", ManifestParams, <<>>, FALSE, RetryLimit("2")),
           Script("apply-application", ManifestParams, <<>>, TRUE, RetryWithBackoff),
           Script("verify-creation", {"app_name", "namespace"}, <<>>, FALSE, RetryLimit("2"))>>
    ELSE IF kind = "applicationset"
    THEN <<Script("validate-inputs",
                  {"appset_name", "repo_url", "chart_path", "environments", "generator_type"},
                  <<Check("appset_name", "empty", 1), Check("repo_url", "empty", 1),
                   Check("chart_path", "empty", 1), Check("environments", "empty", 1),
                   Check("generator_type", "neither list nor git", 1)>>,
                  FALSE, RetryLimit("2")),
           Script("validate-environments", {"environments"},
                  <<Check("environments", "no JSON", 1), Check("environments", "empty list", 1)>>,
                  FALSE, RetryLimit("2")),
           Script("generate-manifest", AppsetManifestParams, <<>>, FALSE, RetryLimit("2")),
           Script("apply-applicationset", AppsetManifestParams, <<>>, TRUE, RetryWithBackoff)>>
    ELSE <<Script("create-namespace", {"namespace"}, <<Check("namespace", "empty", 1)>>,
                  TRUE, RetryOnError("2")),
           Script("create-secrets", {"namespace", "secrets"},
                  <<Check("secrets", "empty or []", 0), Check("secrets", "no JSON", 1)>>,
                  TRUE, RetryOnError("2")),
           Script("create-configmaps", {"namespace", "configmaps"},
                  <<Check("configmaps", "empty or []", 0), Check("configmaps", "no JSON", 1)>>,
                  TRUE, RetryOnError("2")),
           Script("execute-custom-scripts", {"custom_scripts"},
                  <<Check("custom_scripts", "empty", 0)>>, FALSE, RetryOnError("2"))>>

\* spec.templates: the entrypoint template, then the script templates
template_names(kind) ==
    <<entrypoint(kind)>> \o [i \in 1..Len(script_templates(kind)) |-> script_templates(kind)[i].name]

Param(name) == [name |-> name, has_value |-> FALSE, value |-> ""]
ParamDefault(name, value) == [name |-> name, has_value |-> TRUE, value |-> value]

\* the same parameters, none with a default
parameters_without_defaults(kind) ==
    IF kind = "application"
    THEN <<Param("app_name"), Param("namespace"), Param("repo_url"), Param("chart_path"),
           Param("destination_cluster"), Param("destination_namespace"),
           Param("values_file"), Param("sync_policy_automated"),
           Param("sync_policy_self_heal"), Param("sync_policy_prune")>>
    ELSE IF kind = "applicationset"
    THEN <<Param("appset_name"), Param("repo_url"), Param("chart_path"),
           Param("generator_type"), Param("environments"),
           Param("sync_policy_automated"), Param("sync_policy_self_heal"),
           Param("sync_policy_prune")>>
    ELSE <<Param("namespace"), Param("secrets"), Param("configmaps"), Param("custom_scripts")>>

\* spec.arguments.parameters, lines 59-72, 343-354, 595-602
parameters(kind) ==
    IF kind = "application"
    THEN <<Param("app_name"), Param("namespace"), Param("repo_url"), Param("chart_path"),
           ParamDefault("destination_cluster", "https://kubernetes.default.svc"),
           Param("destination_namespace"), ParamDefault("values_file", ""),
           ParamDefault("sync_policy_automated", "false"),
           ParamDefault("sync_policy_self_heal", "false"),
           ParamDefault("sync_policy_prune", "false")>>
    ELSE IF kind = "applicationset"
    THEN <<Param("appset_name"), Param("repo_url"), Param("chart_path"),
           ParamDefault("generator_type", "list"), Param("environments"),
           ParamDefault("sync_policy_automated", "false"),
           ParamDefault("sync_policy_self_heal", "false"),
           ParamDefault("sync_policy_prune", "false")>>
    ELSE <<Param("namespace"), ParamDefault("secrets", "[]"),
           ParamDefault("configmaps", "[]"), ParamDefault("custom_scripts", "")>>

\* what the shell tests of the scripts decide for a value: `[ -z v ]`,
\* `[ v != list ] && [ v != git ]`, `echo v | jq -e '.'` failing,
\* `jq length` being 0, `[ v = "[]" ] || [ -z v ]`
JsonTexts == {"[]", "[{}]"}
stops_on(test, value) ==
    CASE test = "empty" -> value = ""
      [] test = "neither list nor git" -> value \notin {"list", "git"}
      [] test = "no JSON" -> value \notin JsonTexts
      [] test = "empty list" -> value = "[]"
      [] test = "empty or []" -> value \in {"", "[]"}

\* the exit code the tests of a script on `param` end it with when the
\* parameter has the value, or "runs" when none of them stops it
RECURSIVE script_exit(_, _, _)
script_exit(checks, param, value) ==
    IF checks = <<>> THEN "runs"
    ELSE IF Head(checks).param = param /\ stops_on(Head(checks).stops_on, value)
    THEN IF Head(checks).exit = 0 THEN "exit 0" ELSE "exit 1"
    ELSE script_exit(Tail(checks), param, value)

----------------------------------------------------------------------------
(* C21 *)

GeneratedOk == genPc \in {"generated", "validated"} /\ ~genResult.raised

\* C21: in every generated template the template names are unique, the
\* entrypoint names a declared template, every step of the entrypoint's
\* chain references a declared template, and every stage of the chain holds
\* exactly one step.
C21_TemplateStructure ==
    GeneratedOk =>
        LET names == template_names(genKind)
            chain == steps(genKind)
        IN /\ \A i, j \in 1..Len(names) : names[i] = names[j] => i = j
           /\ entrypoint(genKind) \in Range(names)
           /\ \A s \in 1..Len(chain) :
                 /\ Len(chain[s]) = 1
                 /\ \A k \in 1..Len(chain[s]) : chain[s][k].template \in Range(names)
           /\ \A s, t \in 1..Len(chain) : chain[s][1].name = chain[t][1].name => s = t

\* the infrastructure template, whose last step is gated by a condition, was
\* generated
C21_Witness ==
    /\ GeneratedOk
    /\ genKind = "infrastructure"
    /\ Len(steps(genKind)) = 4
    /\ steps(genKind)[4][1].when # {}

----------------------------------------------------------------------------
(* C22 *)

Declared(kind) == {parameters(kind)[i].name : i \in 1..Len(parameters(kind))}
ParamOf(kind, name) ==
    CHOOSE q \in Range(parameters(kind)) : q.name = name

\* the workflow parameters the scripts and the step conditions substitute
Substituted(kind) ==
    UNION {script_templates(kind)[i].substitutes : i \in 1..Len(script_templates(kind))}
        \cup UNION {steps(kind)[s][1].when : s \in 1..Len(steps(kind))}

\* a step fails when the parameter has the value
Rejected(kind, name, value) ==
    \E i \in 1..Len(script_templates(kind)) :
        script_exit(script_templates(kind)[i].checks, name, value) = "exit 1"

\* a step tests the parameter for emptiness and fails on it
RequiredByTest(kind, name) ==
    \E i \in 1..Len(script_templates(kind)) :
        \E c \in Range(script_templates(kind)[i].checks) :
            c.param = name /\ c.stops_on = "empty" /\ c.exit = 1

\* C22 as stated: every substituted parameter is declared, and a declared
\* parameter has no default exactly when a step rejects its empty value.
C22_DefaultsIffNotRejectedEmpty ==
    GeneratedOk =>
        /\ Substituted(genKind) \subseteq Declared(genKind)
        /\ \A q \in Range(parameters(genKind)) :
              Rejected(genKind, q.name, "") <=> ~q.has_value

\* C22: in every generated template every workflow parameter a script or a
\* step condition substitutes is declared; a parameter that a step tests for
\* emptiness and fails on is declared without a default, every other
\* parameter is declared with one, and no step rejects a declared default.
C22_ParametersDeclared ==
    GeneratedOk =>
        /\ Substituted(genKind) \subseteq Declared(genKind)
        /\ \A q \in Range(parameters(genKind)) :
              /\ RequiredByTest(genKind, q.name) <=> ~q.has_value
              /\ q.has_value => ~Rejected(genKind, q.name, q.value)

\* the applicationset template: generator_type has the default "list", which
\* the steps accept, while they reject its empty value
C22_Witness ==
    /\ GeneratedOk
    /\ genKind = "applicationset"
    /\ ParamOf(genKind, "generator_type").has_value
    /\ ~Rejected(genKind, "generator_type", ParamOf(genKind, "generator_type").value)
    /\ Rejected(genKind, "generator_type", "")

----------------------------------------------------------------------------
(* C23 *)

\* the limits that are a number
RetryLimits == {"0", "1", "2", "3", "4", "5", "6", "7", "8", "9"}

Capped(backoff) ==
    backoff.has /\ backoff.duration # "" /\ backoff.factor > 1 /\ backoff.maxDuration # ""

\* Every script template has a retryStrategy whose limit is a number, and
\* the steps that apply the generated manifest have a capped exponential
\* backoff.
RetryLimitsBounded ==
    GeneratedOk =>
        \A t \in Range(script_templates(genKind)) :
            /\ t.retryStrategy.limit \in RetryLimits
            /\ t.name \in {"apply-application", "apply-applicationset"}
                  => Capped(t.retryStrategy.backoff)

\* C23: in every generated template each executable step has a bounded
\* retry limit, and every step that runs an apply against the cluster has in
\* addition a capped exponential backoff (duration, factor, maxDuration).
C23_ApplyStepsHaveBackoff ==
    GeneratedOk =>
        \A t \in Range(script_templates(genKind)) :
            /\ t.retryStrategy.limit \in RetryLimits
            /\ t.applies => Capped(t.retryStrategy.backoff)

----------------------------------------------------------------------------
(* C24 *)

\* C24: apply hands a document to kubectl only after the document has passed
\* validation; for a document that does not parse, apply raises the
\* ValidationError of the syntax check, kubectl is not run and the template
\* store stays as it was.
C24_ValidateBeforeUpsert ==
    /\ applyPc = "kubectl" => applyDoc.yaml
    /\ \A d \in tplStore : d.yaml
    /\ (applyPc = "returned" /\ ~applyDoc.yaml) =>
          /\ applyResult = Raise("ValidationError", "Invalid YAML syntax")
          /\ applyEnded = "not yaml"
          /\ applyCalls > 1 => tplStore = prevApply.store

\* after a successful apply, a second call with text that is not YAML has
\* returned and the store holds what the first call left
C24_Witness ==
    /\ applyPc = "returned"
    /\ ~applyDoc.yaml
    /\ applyCalls = 2
    /\ prevApply.ok
    /\ tplStore # {}
    /\ applyResult.raised

----------------------------------------------------------------------------
(* C25 *)

PhaseEnumeration == {"Pending", "Running", "Succeeded", "Failed", "Error"}

\* The snapshot carries the phase the remote status holds, unchanged.
PhaseCopiedWhenPresent ==
    (fetchPc = "done" /\ ~fetchResult.raised /\ fetchWf.phase.has) =>
        fetchResult.val.phase = fetchWf.phase.v

\* C25: the phase of every snapshot fetch returns, and of every node in it,
\* is one of Pending, Running, Succeeded, Failed, Error, whatever the remote
\* status holds, a status without phase field included.
C25_PhaseInEnumeration ==
    (fetchPc = "done" /\ ~fetchResult.raised) =>
        /\ fetchResult.val.phase \in PhaseEnumeration
        /\ \A i \in DOMAIN fetchResult.val.nodes :
              fetchResult.val.nodes[i].phase \in PhaseEnumeration

----------------------------------------------------------------------------
(* C26 *)

\* the first call of a run has returned: the instances in the store are the
\* ones this call created
FirstSubmitReturned == submitPc = "returned" /\ submitCalls = 1

\* When the remote refuses the request nothing is created and submit fails,
\* and an identifier submit returns is the name of the instance created.
SubmitReportsRefusalAndName ==
    FirstSubmitReturned =>
        /\ submitResp.cls = "ApiException" => (submitResult.raised /\ instances = {})
        /\ ~submitResult.raised =>
              \E w \in instances : w.name = submitResult.val

\* C26: whenever submit returns a failure it has created no instance, and
\* whenever it has created an instance it returns that instance's generated
\* name, for every answer of the remote (a successful create whose answer
\* lacks the name included).
C26_SubmitIsAtomic ==
    FirstSubmitReturned =>
        /\ submitResult.raised => instances = {}
        /\ instances # {} =>
              /\ ~submitResult.raised
              /\ \E w \in instances : w.name = submitResult.val

----------------------------------------------------------------------------
(* C27 *)

BeforeLoop == {"start", "confirm", "declined", "invalid", "notfound", "empty", "error"}

\* what the selector of the command allows to delete
Selected ==
    IF delArgs.workflow_name # 0 THEN {delArgs.workflow_name}
    ELSE IF HasLabels THEN wfLabelled
    ELSE IF delArgs.all THEN WfNames
    ELSE {}

DeleteWithinSelection ==
    /\ delPc \in BeforeLoop => delRequests = <<>>
    /\ \A j \in 1..Len(delRequests) : delRequests[j].name \in Range(workflows_to_delete)
    /\ Range(workflows_to_delete) \subseteq Selected

DeleteOnlyAfterConfirm ==
    /\ Len(delRequests') > Len(delRequests) => delPc = "loop"
    /\ (delPc' = "loop" /\ delPc # "loop") => delPc \in {"confirm", "inflight"}
    /\ delPc = "declined" => (delPc' = "declined" /\ wfStore' = wfStore)

\* C27: the delete command issues no delete request before the
\* confirmation is passed (by the user's yes or by --yes); once declined it
\* issues none and leaves the store alone; and every request is for a
\* workflow of the list resolved and displayed, which holds only the named
\* workflow, or only workflows the list returned for the labels, or all
\* workflows only under --all.
C27_DeleteOnlyConfirmedSelection ==
    /\ [](delOp = "cli" => DeleteWithinSelection)
    /\ [][delOp = "cli" => DeleteOnlyAfterConfirm]_vars

\* a deletion by labels was confirmed and has sent a request, while the
\* store holds a workflow without the labels
C27_Witness ==
    /\ delOp = "cli"
    /\ HasLabels /\ ~delArgs.all /\ ~delArgs.yes /\ delArgs.workflow_name = 0
    /\ Len(delRequests) >= 1
    /\ wfStore \ wfLabelled # {}

----------------------------------------------------------------------------
(* cli.py: submit app and submit appset, the parameters they send *)

SyncPolicies == {"manual", "auto", "auto-prune", "auto-heal"}

\* str(b).lower()
BoolText(b) == IF b THEN "true" ELSE "false"

\* lines 509-520: the dict parsed from --helm-parameters is empty unless an
\* item has the form key=value
helm_params_dict_filled(helm_parameters) == helm_parameters = "k=v"

\* cli.py 522-546: the parameters of `submit app`
submit_app_parameters(o) ==
    LET names == {"app_name", "namespace", "repo_url", "chart_path", "destination_cluster",
                  "destination_namespace", "sync_automated", "sync_prune", "sync_self_heal"}
                 \cup (IF o.values_file # "" THEN {"values_file"} ELSE {})
                 \cup (IF helm_params_dict_filled(o.helm_parameters)
                       THEN {"helm_parameters"} ELSE {})
    IN [n \in names |->
          CASE n = "app_name" -> "app"
            [] n = "namespace" -> "argocd"
            [] n = "repo_url" -> "https://charts"
            [] n = "chart_path" -> "chart"
            [] n = "destination_cluster" -> "https://kubernetes.default.svc"
            [] n = "destination_namespace" ->
                  IF o.destination_namespace = "" THEN "app" ELSE o.destination_namespace
            [] n = "sync_automated" ->
                  BoolText(o.sync_policy \in {"auto", "auto-prune", "auto-heal"})
            [] n = "sync_prune" -> BoolText(o.sync_policy = "auto-prune")
            [] n = "sync_self_heal" -> BoolText(o.sync_policy = "auto-heal")
            [] n = "values_file" -> o.values_file
            [] n = "helm_parameters" -> o.helm_parameters]

\* cli.py 907-923: the parameters of `submit appset`
submit_appset_parameters(o) ==
    [n \in {"appset_name", "namespace", "repo_url", "chart_path", "generator_type",
            "environments", "sync_automated", "sync_prune", "sync_self_heal"} |->
          CASE n = "appset_name" -> "appset"
            [] n = "namespace" -> "argocd"
            [] n = "repo_url" -> "https://charts"
            [] n = "chart_path" -> "chart"
            [] n = "generator_type" -> o.generator_type
            [] n = "environments" -> "[{}]"
            [] n = "sync_automated" ->
                  BoolText(o.sync_policy \in {"auto", "auto-prune", "auto-heal"})
            [] n = "sync_prune" -> BoolText(o.sync_policy = "auto-prune")
            [] n = "sync_self_heal" -> BoolText(o.sync_policy = "auto-heal")]

\* the template each command instantiates, lines 600 and 978
template_of_command(name) ==
    IF name = "app" THEN "create-argocd-application" ELSE "create-argocd-applicationset"

\* the options a run of each command may be given
CommandOptions(name) ==
    IF name = "app"
    THEN [values_file : {"", "values.yaml"}, helm_parameters : {"", "k=v", "k"},
          sync_policy : SyncPolicies, destination_namespace : {"", "prod"},
          generator_type : {"list"}]
    ELSE [values_file : {""}, helm_parameters : {""}, sync_policy : SyncPolicies,
          destination_namespace : {""}, generator_type : {"list", "git"}]

InitCmd ==
    /\ TcIdle
    /\ ValIdle /\ DelIdle /\ LogIdle /\ FetchIdle /\ PollIdle /\ SubmitIdle /\ ApplyIdle
    /\ GenIdle /\ StreamIdle /\ ClassIdle /\ TimeoutIdle /\ FrameIdle
    /\ cmdName \in {"app", "appset"}
    /\ cmdOptions \in CommandOptions(cmdName)
    /\ cmdPc = "start"
    /\ cmdParameters = <<>>
    /\ cmdBody = [generateName |-> "", workflowTemplateRef |-> "", parameters |-> <<>>]

\* the command builds its parameters
CmdBuild ==
    /\ cmdPc = "start"
    /\ cmdParameters' = IF cmdName = "app" THEN submit_app_parameters(cmdOptions)
                        ELSE submit_appset_parameters(cmdOptions)
    /\ cmdPc' = "built"
    /\ UNCHANGED <<cmdName, cmdOptions, cmdBody>>
    /\ UNCHANGED notCmd

\* lines 599-602 and 977-980: the command submits them
CmdSubmit ==
    /\ cmdPc = "built"
    /\ cmdBody' = workflow_body(template_of_command(cmdName), cmdParameters)
    /\ cmdPc' = "submitted"
    /\ UNCHANGED <<cmdName, cmdOptions, cmdParameters>>
    /\ UNCHANGED notCmd

NextCmd ==
    \/ CmdBuild
    \/ CmdSubmit

SpecCmd == InitCmd /\ [][NextCmd]_vars

----------------------------------------------------------------------------
(* C28 *)

\* the kind of the template a command instantiates
KindOfCommand == IF cmdName = "app" THEN "application" ELSE "applicationset"

\* The names both commands send apart from the sync flags, the namespace of
\* appset and the helm parameters are declared by the template.
SentCoreNamesDeclared ==
    cmdPc = "submitted" =>
        /\ cmdBody.workflowTemplateRef = template_name_of(KindOfCommand)
        /\ (DOMAIN cmdBody.parameters)
              \ {"sync_automated", "sync_prune", "sync_self_heal", "helm_parameters",
                 IF cmdName = "appset" THEN "namespace" ELSE "helm_parameters"}
           \subseteq Declared(KindOfCommand)

\* C28: every parameter name `submit app` sends is declared by the
\* application template and every name `submit appset` sends is declared by
\* the applicationset template.
C28_SentParametersDeclared ==
    cmdPc = "submitted" =>
        DOMAIN cmdBody.parameters \subseteq Declared(KindOfCommand)

----------------------------------------------------------------------------
(* C29 *)

\* what a call has yielded, in order
YieldedBy(call) ==
    LET OfCall(e) == e.call = call IN SelectSeq(yielded, OfCall)

\* what a call has yielded for one unit, in order
YieldedFor(call, unit) ==
    LET OfUnit(e) == e.call = call /\ e.unit = unit IN SelectSeq(yielded, OfUnit)

\* a call is through with a unit: the open failed and the placeholder took
\* its place, or the transport has closed and every line of it was yielded
UnitServed(call, unit) ==
    LET t == YieldedFor(call, unit)
    IN \/ Len(t) = 2 /\ t[2].line = -1
       \/ podClosed[unit] /\ Len(t) = 1 + podLines[unit]

\* A call serves the units one after another: a unit's header comes first,
\* then its placeholder or its lines in the transport's order, each once,
\* and nothing of a later unit before the unit is served.
UnitsServedInTurn ==
    \A c \in 1..streamCall :
        LET s == YieldedBy(c)
        IN /\ \A i, j \in 1..Len(s) :
                 i < j => /\ s[i].unit <= s[j].unit
                          /\ s[i].unit < s[j].unit => UnitServed(c, s[i].unit)
           /\ \A u \in StreamUnits :
                 LET t == YieldedFor(c, u)
                 IN Len(t) > 0 =>
                       /\ t[1].line = 0
                       /\ \/ Len(t) = 2 /\ t[2].line = -1
                          \/ /\ Len(t) - 1 <= podLines[u]
                             /\ \A k \in 2..Len(t) : t[k].line = k - 1

\* A log read refused with an ApiException gives the unit's placeholder.
ApiExceptionGivesPlaceholder ==
    \A i \in 1..Len(subscriptions) :
        subscriptions[i].opened = "ApiException" =>
            LET t == YieldedFor(subscriptions[i].call, subscriptions[i].request.name)
            IN Len(t) = 2 /\ t[2].line = -1

\* C29: streamLogs serves the units strictly one after another (header,
\* then the lines in the transport's order, none lost or repeated, nothing of
\* the next unit before the current transport closed), and every failure to
\* open a unit's stream yields that unit's placeholder after which the stream
\* goes on with the next unit.
C29_UnitsInTurnAndPlaceholderOnFailure ==
    /\ UnitsServedInTurn
    /\ \A i \in 1..Len(subscriptions) :
          subscriptions[i].opened # "ok" =>
              LET t == YieldedFor(subscriptions[i].call, subscriptions[i].request.name)
              IN /\ Len(t) = 2 /\ t[2].line = -1
                 /\ ~(subscriptions[i].call = streamCall /\ streamPc = "raised"
                      /\ streamTargets # <<>>
                      /\ streamTargets[streamIdx] = subscriptions[i].request.name)

----------------------------------------------------------------------------
(* cli.py: templates create; validators.py: validate_namespace *)

LowerAlnum == {"a", "0"}

\* validators.py 80: re.match(r'^[a-z0-9]([-a-z0-9]*[a-z0-9])?$', namespace);
\* `$` also matches before a final newline
dns_label_match(namespace) ==
    LET body == IF Len(namespace) > 0 /\ namespace[Len(namespace)] = "\n"
                THEN SubSeq(namespace, 1, Len(namespace) - 1) ELSE namespace
    IN /\ Len(body) > 0
       /\ body[1] \in LowerAlnum
       /\ body[Len(body)] \in LowerAlnum
       /\ \A i \in 1..Len(body) : body[i] \in LowerAlnum \cup {"-"}

\* what read_namespace answers
NamespaceAnswers(exists) == IF exists THEN {"found", "error"} ELSE {"404", "error"}

\* validators.py 64-98: True or an exception, never False
validate_namespace(namespace, answer) ==
    IF namespace = <<>> THEN Raise("ValidationError", "Namespace must be a non-empty string")
    ELSE IF ~dns_label_match(namespace) THEN Raise("ValidationError", "Invalid namespace name")
    ELSE IF answer = "found" THEN Return(TRUE)
    ELSE IF answer = "404" THEN Raise("NamespaceError", "Failed to find namespace")
    ELSE Raise("NamespaceError", "Failed to access namespace")

\* whether validate_namespace gets as far as the read (line 89)
namespace_is_read(namespace) == namespace # <<>> /\ dns_label_match(namespace)

\* cli.py 225-229
templates_for(type) ==
    IF type = "all" THEN <<"application", "applicationset", "infrastructure">>
    ELSE <<type>>

\* cli.py 288-297: whatever is raised leaves the command as a ClickException
ClickException(msg) == Raise("ClickException", msg)

TcNamespaces == {<<"a">>, <<"a", "-", "0">>, <<"-", "a">>, <<>>}

TcApplyEndings == {"ok", "forbidden", "invalid"}

InitTc ==
    /\ ValIdle /\ DelIdle /\ LogIdle /\ FetchIdle /\ PollIdle /\ SubmitIdle /\ ApplyIdle
    /\ GenIdle /\ StreamIdle /\ ClassIdle /\ TimeoutIdle /\ FrameIdle /\ CmdIdle
    /\ tcType \in TemplateKinds \cup {"all"}
    /\ tcNamespace \in TcNamespaces
    /\ nsExists \in BOOLEAN
    /\ tcPc = "start"
    /\ templates_to_create = <<>>
    /\ created_templates = <<>>
    /\ tcRequests = <<>>
    /\ tcResult = NoResult

\* cli.py 190-203: cluster access is validated; validate_cluster_access
\* returns True or raises ClusterAccessError (validators.py 42-62)
TcClusterAccess ==
    /\ tcPc = "start"
    /\ \E ok \in BOOLEAN :
        IF ok
        THEN tcPc' = "namespace" /\ UNCHANGED tcResult
        ELSE /\ tcPc' = "failed"
             /\ tcResult' = ClickException("Template creation error")
    /\ UNCHANGED <<tcType, tcNamespace, nsExists, templates_to_create, created_templates,
                   tcRequests>>
    /\ UNCHANGED notTc

\* cli.py 205-229: the namespace is validated, created when
\* validate_namespace returned False, and the list of templates is set up
TcNamespace ==
    /\ tcPc = "namespace"
    /\ \E answer \in NamespaceAnswers(nsExists), returncode \in {0, 1} :
        LET valid == validate_namespace(tcNamespace, answer)
            read == IF namespace_is_read(tcNamespace)
                    THEN <<[op |-> "read_namespace", answer |-> answer]>> ELSE <<>>
        IN IF valid.raised
           THEN /\ tcRequests' = tcRequests \o read
                /\ tcPc' = "failed"
                /\ tcResult' = ClickException("Template creation error")
                /\ UNCHANGED <<nsExists, templates_to_create>>
           ELSE IF ~valid.val
           THEN /\ tcRequests' = tcRequests \o read \o
                      <<[op |-> "create_namespace",
                         answer |-> IF returncode = 0 THEN "created" ELSE "error"]>>
                /\ IF returncode = 0
                   THEN /\ nsExists' = TRUE
                        /\ tcPc' = "templates"
                        /\ templates_to_create' = templates_for(tcType)
                        /\ UNCHANGED tcResult
                   ELSE /\ tcPc' = "failed"
                        /\ tcResult' = ClickException("Namespace creation failed")
                        /\ UNCHANGED <<nsExists, templates_to_create>>
           ELSE /\ tcRequests' = tcRequests \o read
                /\ tcPc' = "templates"
                /\ templates_to_create' = templates_for(tcType)
                /\ UNCHANGED <<nsExists, tcResult>>
    /\ UNCHANGED <<tcType, tcNamespace, created_templates>>
    /\ UNCHANGED notTc

\* cli.py 233-262: the next template is generated and applied
TcCreateTemplate ==
    /\ tcPc = "templates"
    /\ Len(created_templates) < Len(templates_to_create)
    /\ \E ended \in TcApplyEndings :
        LET tmpl_type == templates_to_create[Len(created_templates) + 1]
            applied == apply_template_outcome(ended)
        IN /\ tcRequests' = Append(tcRequests, [op |-> "apply", answer |-> tmpl_type])
           /\ IF applied.raised
              THEN /\ tcPc' = "failed"
                   /\ tcResult' = ClickException("Template creation error")
                   /\ UNCHANGED created_templates
              ELSE /\ created_templates' = Append(created_templates, template_name_of(tmpl_type))
                   /\ UNCHANGED <<tcPc, tcResult>>
    /\ UNCHANGED <<tcType, tcNamespace, nsExists, templates_to_create>>
    /\ UNCHANGED notTc

\* cli.py 264-275: the summary
TcSummary ==
    /\ tcPc = "templates"
    /\ Len(created_templates) = Len(templates_to_create)
    /\ tcPc' = "done"
    /\ tcResult' = Return(created_templates)
    /\ UNCHANGED <<tcType, tcNamespace, nsExists, templates_to_create, created_templates,
                   tcRequests>>
    /\ UNCHANGED notTc

\* another client creates or deletes the namespace
NamespaceChanges ==
    /\ tcPc \in {"start", "namespace", "templates"}
    /\ nsExists' = ~nsExists
    /\ UNCHANGED <<tcType, tcNamespace, tcPc, templates_to_create, created_templates,
                   tcRequests, tcResult>>
    /\ UNCHANGED notTc

NextTc ==
    \/ TcClusterAccess
    \/ TcNamespace
    \/ TcCreateTemplate
    \/ TcSummary
    \/ NamespaceChanges

SpecTc == InitTc /\ [][NextTc]_vars

----------------------------------------------------------------------------
(* C30 *)

\* the kinds applied so far, in order
AppliedKinds ==
    LET IsApply(r) == r.op = "apply"
        applies == SelectSeq(tcRequests, IsApply)
    IN [i \in 1..Len(applies) |-> applies[i].answer]

\* A template is applied only after the namespace was found to exist or was
\* created, and the templates are applied in the order of the list, which
\* for `all` is application, applicationset, infrastructure.
AppliedAfterNamespaceInOrder ==
    /\ \A j \in 1..Len(tcRequests) :
          tcRequests[j].op = "apply" =>
              \E i \in 1..(j - 1) :
                  \/ tcRequests[i] = [op |-> "read_namespace", answer |-> "found"]
                  \/ tcRequests[i] = [op |-> "create_namespace", answer |-> "created"]
    /\ AppliedKinds = SubSeq(templates_for(tcType), 1, Len(AppliedKinds))

\* C30: on a namespace that does not exist `templates create` creates the
\* namespace and goes on to the templates; a template is applied only after
\* the namespace was found or created; with `all` the order is application,
\* applicationset, infrastructure.
C30_NamespaceCreatedWhenMissing ==
    /\ AppliedAfterNamespaceInOrder
    /\ \A i \in 1..Len(tcRequests) :
          tcRequests[i] = [op |-> "read_namespace", answer |-> "404"] =>
              /\ i < Len(tcRequests)
              /\ tcRequests[i + 1].op = "create_namespace"

====
